---- MODULE Spec2Model ----
(***************************************************************************)
(* A model of kodi-nfo-generator: the .nfo writers (kodi/xml_utils.py,     *)
(* kodi/io_utils.py), the season/episode disk scan (kodi/imdb/_series.py), *)
(* the two generators generate_imdb / generate_omdb and the two batch      *)
(* loops iterate_imdb / iterate_omdb (kodi/imdb/_lib.py, kodi/omdb/_lib.py)*)
(*                                                                         *)
(* Python strings are sequences of one-character strings, so that glob     *)
(* matching, the capture regexes, str(int(..)), basename, splitext and     *)
(* the URL templates are computed and not assumed.  An optional value      *)
(* (None or x) is the sequence <<>> or <<x>>.                              *)
(***************************************************************************)
EXTENDS Integers, Sequences, FiniteSets, TLC

VARIABLES
    fs,      \* the file system: directory path -> its entries, in listing order
    ro,      \* the directories in which opening a file for writing fails
    web,     \* the provider: what each request is answered with
    ns,      \* the parsed command line options of the current invocation
    env,     \* the module globals named "interactive"
    pc,      \* where the batch loop stands
    todo,    \* the batch loop's remaining directories
    ids,     \* the id files of the current directory still to be processed
    trace,   \* what the batch loop did, one entry per id file
    last,    \* the last call of a library function: arguments, effects, result
    calls,   \* how many library calls were made
    visited  \* the directories the batch loop entered, in order

vars == <<fs, ro, web, ns, env, pc, todo, ids, trace, last, calls, visited>>

----------------------------------------------------------------------------
(* Bounds of the model.                                                    *)

\* generate calls per behaviour
MaxCalls == 2
\* application/ld+json blocks on a title page
MaxLd == 2
\* id files matching ns.pattern in one directory
MaxIdFiles == 2
\* the application/json scripts of a season page
MaxScripts == 2

----------------------------------------------------------------------------
(* Strings.                                                                *)

None == <<>>
Some(x) == <<x>>
IsNone(o) == o = <<>>
The(o) == o[1]

Digits == {"0", "1", "2", "3", "4", "5", "6", "7", "8", "9"}

DigitVal(c) ==
    CASE c = "0" -> 0 [] c = "1" -> 1 [] c = "2" -> 2 [] c = "3" -> 3
      [] c = "4" -> 4 [] c = "5" -> 5 [] c = "6" -> 6 [] c = "7" -> 7
      [] c = "8" -> 8 [] c = "9" -> 9

DigitChar(n) ==
    CASE n = 0 -> "0" [] n = 1 -> "1" [] n = 2 -> "2" [] n = 3 -> "3"
      [] n = 4 -> "4" [] n = 5 -> "5" [] n = 6 -> "6" [] n = 7 -> "7"
      [] n = 8 -> "8" [] n = 9 -> "9"

\* int(s) for a string of decimal digits
RECURSIVE py_int(_)
py_int(s) ==
    IF Len(s) = 0 THEN 0
    ELSE 10 * py_int(SubSeq(s, 1, Len(s) - 1)) + DigitVal(s[Len(s)])

\* str(n) for n >= 0: decimal, no leading zeros
RECURSIVE py_str(_)
py_str(n) ==
    IF n < 10 THEN <<DigitChar(n)>>
    ELSE Append(py_str(n \div 10), DigitChar(n % 10))

startswith(s, p) == Len(s) >= Len(p) /\ SubSeq(s, 1, Len(p)) = p

endswith(s, p) ==
    Len(s) >= Len(p) /\ SubSeq(s, Len(s) - Len(p) + 1, Len(s)) = p

Whitespace == {" ", "\n", "\t"}

\* s.strip()
RECURSIVE strip(_)
strip(s) ==
    IF Len(s) = 0 THEN s
    ELSE IF s[1] \in Whitespace THEN strip(Tail(s))
    ELSE IF s[Len(s)] \in Whitespace THEN strip(SubSeq(s, 1, Len(s) - 1))
    ELSE s

\* the last index of character c in s, 0 if there is none
LastIndex(s, c) ==
    LET hits == {i \in 1..Len(s) : s[i] = c}
    IN  IF hits = {} THEN 0 ELSE CHOOSE i \in hits : \A k \in hits : k <= i

\* os.path.basename
basename(path) == SubSeq(path, LastIndex(path, "/") + 1, Len(path))

\* os.path.join(path, name) for a relative name
join(path, name) == path \o <<"/">> \o name

\* os.path.splitext(name)[0]: a leading dot starts no extension
splitext_root(name) ==
    LET i == LastIndex(name, ".")
    IN  IF i <= 1 THEN name ELSE SubSeq(name, 1, i - 1)

\* fnmatch.fnmatchcase(s, p) for patterns of literals, "?" and "*"
RECURSIVE fnmatch(_, _)
fnmatch(s, p) ==
    IF Len(p) = 0 THEN Len(s) = 0
    ELSE IF Head(p) = "*"
         THEN fnmatch(s, Tail(p)) \/ (Len(s) > 0 /\ fnmatch(Tail(s), p))
    ELSE /\ Len(s) > 0
         /\ (Head(p) = "?" \/ Head(p) = Head(s))
         /\ fnmatch(Tail(s), Tail(p))

\* fnmatch.filter(names, p): the matching names, in order
fnmatch_filter(names, p) == SelectSeq(names, LAMBDA n : fnmatch(n, p))

\* character codes of the characters directory paths are made of
Ord(c) ==
    CASE c = "/" -> 47 [] c = "1" -> 49 [] c = "A" -> 65 [] c = "B" -> 66
      [] c = "m" -> 109 [] c = "s" -> 115

\* a < b for Python strings
RECURSIVE StrLess(_, _)
StrLess(a, b) ==
    IF Len(b) = 0 THEN FALSE
    ELSE IF Len(a) = 0 THEN TRUE
    ELSE IF Head(a) = Head(b) THEN StrLess(Tail(a), Tail(b))
    ELSE Ord(Head(a)) < Ord(Head(b))

\* list.sort() of a list of strings
sort(l) == SortSeq(l, StrLess)

\* "x = e; F(x)": e is evaluated once and its value is handed to F
Bind(e, F(_)) == CHOOSE r \in {F(x) : x \in {e}} : TRUE

\* the elements of a sequence
Range(s) == {s[i] : i \in 1..Len(s)}

\* the concatenation of a sequence of sequences
RECURSIVE Flatten(_)
Flatten(ss) == IF Len(ss) = 0 THEN <<>> ELSE Head(ss) \o Flatten(Tail(ss))

----------------------------------------------------------------------------
(* Names.                                                                  *)

TAG_MOVIE == "movie"
TAG_TVSHOW == "tvshow"
FILENAME_TVSHOW == <<"t","v","s","h","o","w",".","n","f","o">>
NfoExt == <<".","n","f","o">>
FILENAME_MULTI == <<"m","u","l","t","i","-","e","p","i","s","o","d","e",".","n","f","o">>
\* the default of --fanart_file
FanartFile == <<"f","o","l","d","e","r",".","j","p","g">>
\* the default of --episode_pattern
DefaultPattern == <<"*","S","?","?","E","?","?","*",".","*">>
MkvPattern == <<"*",".","m","k","v">>
\* the default of --pattern
IdPattern == <<"*",".","i","m","d","b">>
\* the id files of a directory: 1.imdb, 2.imdb, ...
IdFile(i) == <<DigitChar(i)>> \o <<".","i","m","d","b">>

\* episode files: Show.S01E02.mkv, Show.S1E2.mkv, Show.S001E002.mkv,
\* Show.S01E01.mkv, Show.S03E01.mkv and the sidecar Show.S01E02.nfo
F_S01E02 == <<"S","h","o","w",".","S","0","1","E","0","2",".","m","k","v">>
F_S1E2 == <<"S","h","o","w",".","S","1","E","2",".","m","k","v">>
F_S001E002 == <<"S","h","o","w",".","S","0","0","1","E","0","0","2",".","m","k","v">>
F_S01E01 == <<"S","h","o","w",".","S","0","1","E","0","1",".","m","k","v">>
F_S03E01 == <<"S","h","o","w",".","S","0","3","E","0","1",".","m","k","v">>
N_S01E02 == <<"S","h","o","w",".","S","0","1","E","0","2",".","n","f","o">>

\* the directory tree: /m, /m/A, /m/A/s1, /m/B
DirM == <<"/","m">>
DirA == <<"/","m","/","A">>
DirS1 == <<"/","m","/","A","/","s","1">>
DirB == <<"/","m","/","B">>
DirPaths == {DirM, DirA, DirS1, DirB}

\* the subdirectories of a directory, in the order the listing yields them
ChildDirs(d) ==
    IF d = DirM THEN <<DirB, DirA>>
    ELSE IF d = DirA THEN <<DirS1>>
    ELSE <<>>

----------------------------------------------------------------------------
(* The file system.  A file's data is a sequence of lines; a line is       *)
(* <<indent, kind, tag, text, attributes>>.                                *)

MapSeq(s, Op(_)) == [i \in 1..Len(s) |-> Op(s[i])]

RawLine(text) == <<0, "raw", "", text, <<>>>>
OldData == <<RawLine(<<"o","l","d">>)>>
MediaData == <<>>
ImageData == <<RawLine(<<"j","p","g">>)>>
Entry(n, d) == [name |-> n, data |-> d]

FileNames(f, d) == MapSeq(f[d], LAMBDA e : e.name)

\* os.listdir(d)
listdir(f, d) == FileNames(f, d) \o MapSeq(ChildDirs(d), basename)

\* os.path.exists(os.path.join(d, name))
exists(f, d, name) == name \in Range(listdir(f, d))

\* the data of file name in d
read(f, d, name) ==
    LET i == CHOOSE i \in 1..Len(f[d]) : f[d][i].name = name
    IN  f[d][i].data

\* open(os.path.join(d, name), "w").write(data)
write(f, d, name, data) ==
    IF \E i \in 1..Len(f[d]) : f[d][i].name = name
    THEN [f EXCEPT ![d] = [i \in 1..Len(f[d]) |->
                              IF f[d][i].name = name THEN Entry(name, data)
                              ELSE f[d][i]]]
    ELSE [f EXCEPT ![d] = Append(f[d], Entry(name, data))]

\* the directories to inspect: path, then depth first its subdirectories
RECURSIVE determine_dirs(_, _)
determine_dirs(path, recursive) ==
    <<path>> \o
        (IF recursive
         THEN Flatten(MapSeq(ChildDirs(path), LAMBDA c : determine_dirs(c, TRUE)))
         ELSE <<>>)

\* get_nfo_file looking for <basename>.nfo only
get_nfo_file_movie_only(f, path) ==
    IF exists(f, path, basename(path) \o NfoExt)
    THEN Some(join(path, basename(path) \o NfoExt))
    ELSE None

\* the existing title sidecar of a directory: <basename>.nfo, else tvshow.nfo
get_nfo_file(f, path) ==
    IF exists(f, path, basename(path) \o NfoExt)
    THEN Some(join(path, basename(path) \o NfoExt))
    ELSE IF exists(f, path, FILENAME_TVSHOW)
         THEN Some(join(path, FILENAME_TVSHOW))
         ELSE None

----------------------------------------------------------------------------
(* The disk scan.                                                          *)

\* re.compile(".*S([0-9]?[0-9])E.*").match(s): group 1, or None.  The greedy
\* ".*" settles on the last "S" that one or two digits and an "E" follow.
match_season_group(s) ==
    LET two(i) == /\ i + 3 <= Len(s)
                  /\ s[i + 1] \in Digits /\ s[i + 2] \in Digits
                  /\ s[i + 3] = "E"
        one(i) == /\ i + 2 <= Len(s)
                  /\ s[i + 1] \in Digits /\ s[i + 2] = "E"
        hits == {i \in 1..Len(s) : s[i] = "S" /\ (two(i) \/ one(i))}
    IN  IF hits = {} THEN None
        ELSE LET i == CHOOSE i \in hits : \A k \in hits : k <= i
             IN  Some(IF two(i) THEN SubSeq(s, i + 1, i + 2)
                      ELSE SubSeq(s, i + 1, i + 1))

\* re.compile(".*E([0-9]?[0-9]).*").match(s): group 1, or None.  The greedy
\* ".*" settles on the last "E" a digit follows; the group takes two digits
\* when there are two.
match_episode_group(s) ==
    LET hits == {i \in 1..Len(s) :
                    s[i] = "E" /\ i + 1 <= Len(s) /\ s[i + 1] \in Digits}
    IN  IF hits = {} THEN None
        ELSE LET i == CHOOSE i \in hits : \A k \in hits : k <= i
             IN  Some(IF i + 2 <= Len(s) /\ s[i + 2] \in Digits
                      THEN SubSeq(s, i + 1, i + 2)
                      ELSE SubSeq(s, i + 1, i + 1))

\* extract_season_episode handing on the captured groups as they are
extract_season_episode_raw(path) ==
    LET match_s == match_season_group(path)
        match_e == match_episode_group(path)
    IN  IF IsNone(match_s) \/ IsNone(match_e) THEN None
        ELSE Some(<<The(match_s), The(match_e)>>)

\* season and episode of a file name, <<s, e>>, or None
extract_season_episode(path) ==
    LET match_s == match_season_group(path)
        match_e == match_episode_group(path)
    IN  IF IsNone(match_s) \/ IsNone(match_e) THEN None
        ELSE Some(<<py_str(py_int(The(match_s))), py_str(py_int(The(match_e)))>>)

\* a dict as the sequence of its <<key, value>> items, in insertion order
dict_keys(d) == MapSeq(d, LAMBDA kv : kv[1])
dict_has(d, k) == \E i \in 1..Len(d) : d[i][1] = k
dict_get(d, k) == (CHOOSE i \in 1..Len(d) : d[i][1] = k)
dict_val(d, k) == d[dict_get(d, k)][2]
dict_set(d, k, v) ==
    IF dict_has(d, k)
    THEN [i \in 1..Len(d) |-> IF d[i][1] = k THEN <<k, v>> ELSE d[i]]
    ELSE Append(d, <<k, v>>)

\* the files the patterns select below path: <<directory, name>>, directory
\* by directory, pattern by pattern
episode_files(f, path, episode_pattern) ==
    Flatten(MapSeq(determine_dirs(path, TRUE), LAMBDA d :
        Flatten(MapSeq(episode_pattern, LAMBDA p :
            MapSeq(fnmatch_filter(listdir(f, d), p), LAMBDA n : <<d, n>>)))))

RECURSIVE determine_episodes_add(_, _)
determine_episodes_add(result, files) ==
    IF Len(files) = 0 THEN result
    ELSE LET parts == extract_season_episode(Head(files)[2])
         IN  IF IsNone(parts) THEN determine_episodes_add(result, Tail(files))
             ELSE LET s == The(parts)[1]
                      e == The(parts)[2]
                      eps == IF dict_has(result, s) THEN dict_val(result, s)
                             ELSE <<>>
                      eps2 == IF e \in Range(eps) THEN eps ELSE Append(eps, e)
                  IN  determine_episodes_add(dict_set(result, s, eps2),
                                             Tail(files))

\* the episodes on disk: season -> list of episodes
determine_episodes(f, path, episode_pattern) ==
    determine_episodes_add(<<>>, episode_files(f, path, episode_pattern))

----------------------------------------------------------------------------
(* XML documents (xml.dom.minidom) and the two writers.                    *)

\* an element; hasText tells a text child from none (text "" is a child)
Node(tag, value) ==
    [tag |-> tag, attrs |-> <<>>,
     hasText |-> ~IsNone(value),
     text |-> IF IsNone(value) THEN <<>> ELSE The(value),
     kids |-> <<>>]

\* node.setAttribute(name, value)
setAttribute(node, name, value) ==
    [node EXCEPT !.attrs = Append(@, <<name, value>>)]

\* parent.appendChild(node)
appendChild(parent, node) == [parent EXCEPT !.kids = Append(@, node)]

\* add_node(doc, parent, name, value): parent with the new element appended;
\* the element gets a text child unless value is None
add_node(parent, name, value) == appendChild(parent, Node(name, value))

\* minidom.Document(): no document element yet
NewDocument == [kids |-> <<>>]

PrologLine == <<0, "prolog", "?xml", <<>>, <<>>>>

\* Element.writexml with indent "  " and newline "\n": an element without
\* children is one line, one with a single text child is one line, any other
\* is an opening line, its children one level deeper, and a closing line
RECURSIVE writexml(_, _)
writexml(node, ind) ==
    IF Len(node.kids) = 0
    THEN IF node.hasText
         THEN <<<<ind, "leaf", node.tag, node.text, node.attrs>>>>
         ELSE <<<<ind, "empty", node.tag, <<>>, node.attrs>>>>
    ELSE <<<<ind, "open", node.tag, <<>>, node.attrs>>>>
         \o Flatten(MapSeq(node.kids, LAMBDA k : writexml(k, ind + 1)))
         \o <<<<ind, "close", node.tag, <<>>, <<>>>>>>

\* doc.toprettyxml(indent="  "), as its lines
toprettyxml(doc) ==
    <<PrologLine>> \o Flatten(MapSeq(doc.kids, LAMBDA k : writexml(k, 0)))

\* '"<?xml" in line': markup characters of text and attribute values are
\* escaped, so only the prolog holds it
has_prolog(line) == line[2] = "prolog"

\* what a writer call did: the file system after it, its return value, the
\* exception it raised ("" for none), and the files it opened for writing
Done(f, ret) == [fs |-> f, ret |-> ret, exc |-> "", wrote |-> <<>>]
Raised(f, e) == [fs |-> f, ret |-> FALSE, exc |-> e, wrote |-> <<>>]

\* open(path, "w").write(data) in directory d, which fails in a directory
\* of r
write_file(f, r, d, name, data) ==
    IF d \in r THEN Raised(f, "OSError")
    ELSE [fs |-> write(f, d, name, data), ret |-> TRUE, exc |-> "",
          wrote |-> <<join(d, name)>>]

\* output_xml writing whatever dry_run says
output_xml_ignoring_dry_run(f, r, doc, d, name, dry_run, overwrite, logger) ==
    IF exists(f, d, name) /\ ~overwrite
    THEN IF logger THEN Done(f, FALSE) ELSE Raised(f, "AttributeError")
    ELSE write_file(f, r, d, name, toprettyxml(doc))

\* output_xml(doc, xml_path, dry_run, overwrite, logger), xml_path being
\* os.path.join(d, name); logger tells whether a logger was passed
output_xml(f, r, doc, d, name, dry_run, overwrite, logger) ==
    LET xml_str == toprettyxml(doc)
    IN  IF dry_run THEN Done(f, FALSE)
        ELSE IF exists(f, d, name) /\ ~overwrite
             THEN IF logger THEN Done(f, FALSE)
                  ELSE Raised(f, "AttributeError")
             ELSE write_file(f, r, d, name, xml_str)

\* output_str(content, path, dry_run, overwrite, logger), content as its lines
output_str(f, r, content, d, name, dry_run, overwrite, logger) ==
    IF dry_run THEN Done(f, FALSE)
    ELSE IF exists(f, d, name) /\ ~overwrite
         THEN IF logger THEN Done(f, FALSE)
              ELSE Raised(f, "AttributeError")
         ELSE write_file(f, r, d, name, content)

----------------------------------------------------------------------------
(* The provider: a static site, one answer per URL.                        *)

Tid1 == <<"t","t","1">>
Tid2 == <<"t","t","2">>
Tids == {Tid1, Tid2}

Season1 == <<"1">>
Season3 == <<"3">>
\* the seasons a site has a listing page for
SeasonKeys == {Season1, Season3}

ImdbTitlePrefix ==
    <<"h","t","t","p","s",":","/","/","w","w","w",".","i","m","d","b",".",
      "c","o","m","/","t","i","t","l","e","/">>
EpisodesPath == <<"/","e","p","i","s","o","d","e","s","/">>
SeasonQuery == <<"?","s","e","a","s","o","n","=">>

\* "https://www.imdb.com/title/%s/" % tid
title_url(tid) == ImdbTitlePrefix \o tid \o <<"/">>

\* the URL of the episodes overview page, of one season if season is given
create_episodes_url(id, season) ==
    ImdbTitlePrefix \o id \o EpisodesPath
        \o (IF IsNone(season) THEN <<>> ELSE SeasonQuery \o The(season))

\* the poster URLs the payloads of title t carry
image_url(t) == <<"i","m","g",":">> \o t
poster_url(t) == <<"p","o","s","t","e","r",":">> \o t

\* s.replace(old, new), old non-empty
RECURSIVE replace(_, _, _)
replace(s, old, new) ==
    IF Len(s) = 0 THEN <<>>
    ELSE IF startswith(s, old)
         THEN new \o replace(SubSeq(s, Len(old) + 1, Len(s)), old, new)
         ELSE <<Head(s)>> \o replace(Tail(s), old, new)

\* requests.get(url) against the IMDB site w: the status and the page
requests_get(w, url) ==
    IF \E t \in Tids : url = title_url(t)
    THEN LET t == CHOOSE t \in Tids : url = title_url(t)
         IN  [status |-> w.site[t].status, page |-> w.site[t]]
    ELSE IF \E t \in Tids : url = create_episodes_url(t, None)
    THEN LET t == CHOOSE t \in Tids : url = create_episodes_url(t, None)
         IN  [status |-> w.site[t].index_status, page |-> w.site[t]]
    ELSE IF \E t \in Tids, k \in SeasonKeys : url = create_episodes_url(t, Some(k))
    THEN LET tk == CHOOSE tk \in Tids \X SeasonKeys :
                       url = create_episodes_url(tk[1], Some(tk[2]))
         IN  [status |-> w.site[tk[1]].season[tk[2]].status,
              page |-> w.site[tk[1]].season[tk[2]]]
    ELSE IF \E t \in Tids : url = image_url(t)
    THEN LET t == CHOOSE t \in Tids : url = image_url(t)
         IN  [status |-> w.site[t].image_status, page |-> <<>>]
    ELSE IF \E t \in Tids : url = poster_url(t)
    THEN LET t == CHOOSE t \in Tids : url = poster_url(t)
         IN  [status |-> w.omdb[t].image_status, page |-> <<>>]
    ELSE [status |-> 404, page |-> <<>>]

\* requests.get("http://www.omdbapi.com/", params={apikey, i: tid, plot})
requests_get_omdb(w, tid) ==
    IF tid \in Tids THEN [status |-> w.omdb[tid].status, page |-> w.omdb[tid]]
    ELSE [status |-> 404, page |-> <<>>]

----------------------------------------------------------------------------
(* Episodes of a season page (kodi/imdb/_series.py).                       *)

\* has_episodes(soup) of kodi/imdb_series.py, the signal of the older
\* generator kodi/imdb.py: the page has the link to its episodes
has_episodes_soup(soup) == soup.episodes_link

\* whether the structured data of a title page says the title is a series
has_episodes(j) == ~IsNone(j.type) /\ The(j.type) = "TVSeries"

\* extract_seasons(soup): the values of the options of the bySeason
\* dropdown if the page has one, else the texts of the season tabs
extract_seasons(soup) ==
    IF ~IsNone(soup.select) THEN The(soup.select) ELSE soup.tabs

\* the dict of one episode extracted from the embedded JSON: the first four
\* keys are set from the item; plot, aired and _rating when the item has
\* "plot", "aired", and both "aggregateRating" and "voteCount".  The date
\* comes from "releaseDate", which the items at hand hold whenever they
\* hold "aired"
json_episode(item) ==
    <<<<"_uniqueid", Some(item.id)>>,
      <<"season", Some(item.season)>>,
      <<"episode", Some(item.episode)>>,
      <<"title", Some(item.titleText)>>>>
    \o (IF IsNone(item.plot) THEN <<>> ELSE <<<<"plot", item.plot>>>>)
    \o (IF IsNone(item.aired) THEN <<>> ELSE <<<<"aired", item.releaseDate>>>>)
    \o (IF ~IsNone(item.aggregateRating) /\ ~IsNone(item.voteCount)
        THEN <<<<"_rating", Some([value |-> item.aggregateRating,
                                  votes |-> item.voteCount, has_votes |-> TRUE])>>>>
        ELSE <<>>)

RECURSIVE json_items(_, _)
json_items(result, items) ==
    IF Len(items) = 0 THEN result
    ELSE json_items(dict_set(result, Head(items).episode, json_episode(Head(items))),
                    Tail(items))

\* extract_episodes_json(j): [exc, data], data being episode -> episode dict.
\* _find_episodes_json yields None for a block without an "episodes" key,
\* and '"items" in None' raises
extract_episodes_json(j) ==
    LET data == j.episodes
    IN  IF IsNone(data) THEN [exc |-> "TypeError", data |-> <<>>]
        ELSE IF IsNone(The(data).items) THEN [exc |-> "", data |-> <<>>]
        ELSE [exc |-> "", data |-> json_items(<<>>, The(The(data).items))]

\* the dict of one episode extracted from HTML: plot, aired and _rating are
\* set even when the page has none
html_episode(episode, season, tag) ==
    <<<<"_uniqueid", Some(tag.id)>>,
      <<"season", Some(season)>>,
      <<"episode", Some(episode)>>,
      <<"title", Some(tag.title)>>,
      <<"plot", tag.plot>>,
      <<"aired", tag.aired>>,
      <<"_rating", Some([value |-> tag.rating, votes |-> tag.votes,
                         has_votes |-> TRUE])>>>>

RECURSIVE html_tags(_, _, _)
html_tags(result, tags, season) ==
    IF Len(tags) = 0 THEN result
    ELSE IF IsNone(Head(tags).episode) THEN html_tags(result, Tail(tags), season)
    ELSE html_tags(dict_set(result, The(Head(tags).episode),
                            html_episode(The(Head(tags).episode), season, Head(tags))),
                   Tail(tags), season)

\* the dict of one episode extracted from an article of the card layout: the
\* plot is "" when the article has none
article_episode(episode, season, tag) ==
    <<<<"_uniqueid", Some(tag.id)>>,
      <<"season", Some(season)>>,
      <<"episode", Some(episode)>>,
      <<"title", Some(tag.title)>>,
      <<"plot", IF IsNone(tag.plot) THEN Some(<<>>) ELSE tag.plot>>,
      <<"aired", tag.aired>>,
      <<"_rating", Some([value |-> tag.rating, votes |-> None,
                         has_votes |-> FALSE])>>>>

\* the articles of class episode-item-wrapper: one without an episode link
\* is passed over
RECURSIVE article_tags(_, _, _)
article_tags(result, tags, season) ==
    IF Len(tags) = 0 THEN result
    ELSE IF IsNone(Head(tags).episode) THEN article_tags(result, Tail(tags), season)
    ELSE article_tags(dict_set(result, The(Head(tags).episode),
                               article_episode(The(Head(tags).episode), season,
                                               Head(tags))),
                      Tail(tags), season)

\* extract_episodes_html(soup, season): the div layout decides when the page
\* has any div of it, else the article layout
extract_episodes_html(soup, season) ==
    IF Len(soup.divs) > 0 THEN html_tags(<<>>, soup.divs, season)
    ELSE article_tags(<<>>, soup.articles, season)

\* date.strftime("%Y-%m-%d") of a date of four year digits
pad2(n) == IF n < 10 THEN <<"0">> \o py_str(n) ELSE py_str(n)
strftime(date) ==
    py_str(date.year) \o <<"-">> \o pad2(date.month) \o <<"-">> \o pad2(date.day)

\* str(x) of a number or None
str_or_none(x) == IF IsNone(x) THEN <<"N","o","n","e">> ELSE py_str(The(x))

\* the elements of the keys without a leading underscore, in dict order; a
\* value of None gives an element without text
RECURSIVE episode_nodes(_, _)
episode_nodes(root, episode_data) ==
    IF Len(episode_data) = 0 THEN root
    ELSE LET k == Head(episode_data)[1]
             v == Head(episode_data)[2]
         IN  IF k \in {"_uniqueid", "_rating"}
             THEN episode_nodes(root, Tail(episode_data))
             ELSE IF k = "aired" /\ ~IsNone(v)
             THEN episode_nodes(add_node(root, k, Some(strftime(The(v)))),
                                Tail(episode_data))
             ELSE episode_nodes(add_node(root, k, v), Tail(episode_data))

\* ratings/ratings with value and, when the dict has the key, votes
episode_ratings(rating) ==
    LET r1 == add_node(setAttribute(setAttribute(setAttribute(
                           Node("ratings", None), "name", "imdb"), "max", "10"),
                           "default", "true"),
                       "value", Some(str_or_none(rating.value)))
    IN  appendChild(Node("ratings", None),
                    IF rating.has_votes
                    THEN add_node(r1, "votes", Some(str_or_none(rating.votes)))
                    ELSE r1)

\* episode_to_xml(episode_data): the episodedetails document
episode_to_xml(episode_data) ==
    LET root == episode_nodes(Node("episodedetails", None), episode_data)
        uid == setAttribute(setAttribute(
                   Node("uniqueid", dict_val(episode_data, "_uniqueid")),
                   "type", "imdb"), "default", "true")
        r1 == IF dict_has(episode_data, "_uniqueid")
              THEN appendChild(root, uid) ELSE root
    IN  [kids |-> <<IF dict_has(episode_data, "_rating")
                    THEN appendChild(r1, episode_ratings(
                                             The(dict_val(episode_data, "_rating"))))
                    ELSE r1>>]

\* season_data[season][k] = episode_to_xml(episodes_data[k]) for every k
RECURSIVE add_episodes(_, _)
add_episodes(sd, episodes_data) ==
    IF Len(episodes_data) = 0 THEN sd
    ELSE add_episodes(dict_set(sd, Head(episodes_data)[1],
                               episode_to_xml(Head(episodes_data)[2])),
                      Tail(episodes_data))

\* the loop over the application/json scripts of a season page
RECURSIVE json_scripts(_, _)
json_scripts(st, scripts) ==
    IF Len(scripts) = 0 \/ st.exc # "" THEN st
    ELSE Bind(extract_episodes_json(Head(scripts)), LAMBDA got :
             IF got.exc # "" THEN [st EXCEPT !.exc = got.exc]
             ELSE IF Len(got.data) = 0
                  THEN json_scripts([st EXCEPT !.use_fallback = TRUE], Tail(scripts))
                  ELSE Bind([st EXCEPT !.data = add_episodes(@, got.data)], LAMBDA st1 :
                           json_scripts(st1, Tail(scripts))))

\* the episodes of one fetched season page: [exc, use_fallback, data], data
\* being episode -> document; HTML is parsed when use_fallback was set
season_episodes(soup, season) ==
    Bind(json_scripts([exc |-> "", use_fallback |-> FALSE, data |-> <<>>],
                      soup.json), LAMBDA st :
        IF st.exc = "" /\ st.use_fallback
        THEN [st EXCEPT !.data = add_episodes(@, extract_episodes_html(soup, season))]
        ELSE st)

----------------------------------------------------------------------------
(* generate_imdb (kodi/imdb/_lib.py).  A call is threaded through a record *)
(* of the file system, the requests sent, the files opened for writing,    *)
(* the exception raised ("" for none) and the function's locals.           *)

NewCall(f) ==
    [fs |-> f, exc |-> "", fetches |-> <<>>, wrote |-> <<>>,
     emitted |-> <<>>, matched |-> <<>>, fanart_act |-> "",
     hasRoot |-> FALSE, root |-> Node(TAG_MOVIE, None),
     xml_name |-> <<>>, doc_multi |-> <<>>, season_data |-> <<>>,
     has_actors |-> FALSE, output_generated |-> FALSE, skipped |-> FALSE,
     preflang_title |-> None, seasons |-> None]

\* the effect of a writer call on the call record
after_write(acc, result) ==
    Bind(result, LAMBDA res :
        [acc EXCEPT !.fs = res.fs, !.exc = res.exc, !.wrote = @ \o res.wrote,
                    !.output_generated = @ \/ res.ret])

\* a generator without the "can we skip?" check
can_skip_never(f, path, overwrite) == FALSE

\* the skip check looking for <basename>.nfo only
can_skip_movie_sidecar(f, path, overwrite) ==
    ~overwrite /\ ~IsNone(get_nfo_file_movie_only(f, path))

\* "can we skip?": an existing title sidecar and no overwrite
can_skip(f, path, overwrite) == ~overwrite /\ ~IsNone(get_nfo_file(f, path))

\* "download-missing" resolved without a look at the disk
resolve_fanart_download(fanart, f, path) ==
    IF fanart = "download-missing" THEN "download" ELSE fanart

\* the fanart action after "download-missing" was resolved against the disk
resolve_fanart(fanart, f, path) ==
    IF fanart = "download-missing"
    THEN IF exists(f, path, FanartFile) THEN "use-existing" ELSE "download"
    ELSE fanart

thumb_node == setAttribute(Node("thumb", Some(FanartFile)), "aspect", "poster")

\* the fanart part of a title: image is the poster URL of the payload, if any.
\* The image is written whatever dry_run says; a status other than 200 ends
\* in the logger call, whose format string has no conversion for its argument
fanart_step(acc, image, fanart, path, r, w) ==
    Bind(resolve_fanart(fanart, acc.fs, path), LAMBDA act :
    Bind([acc EXCEPT !.fanart_act = act], LAMBDA acc1 :
        IF act = "download"
        THEN IF IsNone(image) THEN acc1
             ELSE Bind(requests_get(w, The(image)), LAMBDA got :
                  Bind([acc1 EXCEPT !.fetches = Append(@, The(image))], LAMBDA acc2 :
                      IF got.status = 200
                      THEN Bind(write_file(acc2.fs, r, path, FanartFile, ImageData),
                                LAMBDA res :
                               IF res.exc # "" THEN [acc2 EXCEPT !.exc = res.exc]
                               ELSE [acc2 EXCEPT !.fs = res.fs,
                                                 !.wrote = @ \o res.wrote,
                                                 !.root = appendChild(@, thumb_node)])
                      ELSE [acc2 EXCEPT !.exc = "TypeError"]))
        ELSE IF act = "use-existing"
             THEN [acc1 EXCEPT !.root = appendChild(@, thumb_node)]
             ELSE acc1))

RECURSIVE actor_nodes(_, _)
actor_nodes(root, names) ==
    IF Len(names) = 0 THEN root
    ELSE actor_nodes(appendChild(root, add_node(Node("actor", None), "name",
                                                Some(Head(names)))),
                     Tail(names))

\* a director element for every entry, named or not
RECURSIVE director_nodes_unnamed(_, _)
director_nodes_unnamed(root, directors) ==
    IF Len(directors) = 0 THEN root
    ELSE director_nodes_unnamed(add_node(root, "director", Head(directors).name),
                                Tail(directors))

\* "for director in j.get("director", ())": one element per director that
\* has a name
RECURSIVE director_nodes(_, _)
director_nodes(root, directors) ==
    IF Len(directors) = 0 THEN root
    ELSE director_nodes(IF IsNone(Head(directors).name) THEN root
                        ELSE add_node(root, "director", Head(directors).name),
                        Tail(directors))

\* the genre elements: one per entry of a list, one for a plain string
RECURSIVE genre_nodes(_, _)
genre_nodes(root, genres) ==
    IF Len(genres) = 0 THEN root
    ELSE genre_nodes(add_node(root, "genre", Some(Head(genres))), Tail(genres))

\* the ratings element with its rating of name imdb and scale 10
ratings_node(value) ==
    appendChild(Node("ratings", None),
                add_node(setAttribute(setAttribute(Node("rating", None),
                                                   "name", "imdb"), "max", "10"),
                         "value", Some(py_str(value))))

\* the root element built from the structured data j of the title page;
\* preflang_title is the data-title of the star-rating-widget, if any
title_root(j, preflang_title) ==
    LET uid == setAttribute(setAttribute(
                   Node("uniqueid",
                        Some(replace(replace(j.url, <<"/","t","i","t","l","e","/">>, <<>>),
                                     <<"/">>, <<>>))),
                   "type", "imdb"), "default", "true")
        r1 == add_node(Node(TAG_MOVIE, None), "title",
                       IF IsNone(preflang_title) THEN Some(j.name) ELSE preflang_title)
        r2 == add_node(r1, "originaltitle", Some(j.name))
        r3 == appendChild(r2, uid)
        r4 == IF IsNone(j.description) THEN r3
              ELSE add_node(add_node(r3, "plot", j.description),
                            "outline", j.description)
        r5 == IF IsNone(j.contentRating) THEN r4
              ELSE add_node(r4, "mpaa", j.contentRating)
        r6 == IF IsNone(j.datePublished) THEN r5
              ELSE add_node(r5, "premiered", j.datePublished)
        r7 == director_nodes(r6, j.director)
        r8 == IF IsNone(j.genre) THEN r7
              ELSE IF The(j.genre).list THEN genre_nodes(r7, The(j.genre).value)
              ELSE add_node(r7, "genre", Some(The(j.genre).value))
        r9 == actor_nodes(r8, j.actor)
        r10 == IF ~IsNone(j.trailer) /\ ~IsNone(The(j.trailer).embedUrl)
               THEN add_node(r9, "trailer", The(j.trailer).embedUrl)
               ELSE r9
    IN  IF ~IsNone(j.aggregateRating) /\ ~IsNone(The(j.aggregateRating).ratingValue)
        THEN appendChild(r10, ratings_node(The(The(j.aggregateRating).ratingValue)))
        ELSE r10

\* a failed season request that ends the loop over the seasons
after_failed_season_break(seasons) == <<>>

\* "continue" after a season request with a status other than 200: the
\* seasons the loop still goes through
after_failed_season(seasons) == Tail(seasons)

\* the season pages of the seasons found on disk, season by season
RECURSIVE fetch_seasons(_, _, _, _)
fetch_seasons(acc, seasons, tid, w) ==
    IF Len(seasons) = 0 \/ acc.exc # "" THEN acc
    ELSE LET season == Head(seasons)
             url == create_episodes_url(tid, Some(season))
         IN  Bind(requests_get(w, url), LAMBDA got :
             Bind([acc EXCEPT !.fetches = Append(@, url),
                              !.season_data = dict_set(@, season, <<>>)], LAMBDA acc1 :
                 IF got.status # 200
                 THEN fetch_seasons(acc1, after_failed_season(seasons), tid, w)
                 ELSE Bind(season_episodes(got.page, season), LAMBDA eps :
                          IF eps.exc # "" THEN [acc1 EXCEPT !.exc = eps.exc]
                          ELSE Bind([acc1 EXCEPT !.season_data =
                                                    dict_set(@, season, eps.data)],
                                    LAMBDA acc2 :
                                   fetch_seasons(acc2, Tail(seasons), tid, w)))))

\* is_matched with season and episode taken the other way round
is_matched_swapped(season_data, parts) ==
    /\ dict_has(season_data, parts[2])
    /\ dict_has(dict_val(season_data, parts[2]), parts[1])

\* whether the remote data has the episode a file name stands for
is_matched(season_data, parts) ==
    /\ dict_has(season_data, parts[1])
    /\ dict_has(dict_val(season_data, parts[1]), parts[2])

\* doc_multi extended by every line of the fragment
multi_extend_keep(doc_multi, xml_lines) == doc_multi \o xml_lines

\* doc_multi after the lines of one more fragment: the prolog of every
\* fragment but the first is dropped
multi_extend(doc_multi, xml_lines) ==
    IF Len(doc_multi) > 0 /\ has_prolog(xml_lines[1])
    THEN doc_multi \o Tail(xml_lines)
    ELSE doc_multi \o xml_lines

\* one file of the episode loop
emit_file(acc, d, f, a, r) ==
    IF endswith(f, NfoExt) THEN acc
    ELSE Bind(extract_season_episode(f), LAMBDA parts :
             IF IsNone(parts) THEN acc
             ELSE IF ~is_matched(acc.season_data, The(parts)) THEN acc
             ELSE Bind(dict_val(dict_val(acc.season_data, The(parts)[1]),
                                The(parts)[2]), LAMBDA xml :
                  Bind([acc EXCEPT !.matched = Append(@, join(d, f))], LAMBDA acc1 :
                      IF a.multi_episodes
                      THEN [acc1 EXCEPT !.doc_multi = multi_extend(@, toprettyxml(xml))]
                      ELSE after_write(
                               [acc1 EXCEPT !.emitted = Append(@, join(d, f))],
                               output_xml(acc1.fs, r, xml, d, splitext_root(f) \o NfoExt,
                                          a.dry_run, a.overwrite, TRUE)))))

RECURSIVE emit_files(_, _, _, _, _)
emit_files(acc, d, files, a, r) ==
    IF Len(files) = 0 \/ acc.exc # "" THEN acc
    ELSE Bind(emit_file(acc, d, Head(files), a, r), LAMBDA acc1 :
             emit_files(acc1, d, Tail(files), a, r))

RECURSIVE emit_patterns(_, _, _, _, _)
emit_patterns(acc, d, patterns, a, r) ==
    IF Len(patterns) = 0 \/ acc.exc # "" THEN acc
    ELSE Bind(emit_files(acc, d, fnmatch_filter(listdir(acc.fs, d), Head(patterns)),
                         a, r), LAMBDA acc1 :
             emit_patterns(acc1, d, Tail(patterns), a, r))

\* "locate files and output XML"
RECURSIVE emit_dirs(_, _, _, _)
emit_dirs(acc, dirs, a, r) ==
    IF Len(dirs) = 0 \/ acc.exc # "" THEN acc
    ELSE Bind(emit_patterns(acc, Head(dirs), a.episode_pattern, a, r), LAMBDA acc1 :
             emit_dirs(acc1, Tail(dirs), a, r))

\* the seasons the episodes page names, whatever the disk holds
seasons_sorted_available(seasons, seasons_episodes) == seasons

\* "seasons_sorted = sorted(seasons_episodes.keys(), key=int)": the seasons
\* the loop requests are those of the disk map; the seasons of the episodes
\* page have no part in it
seasons_sorted(seasons, seasons_episodes) ==
    SortSeq(dict_keys(seasons_episodes), LAMBDA x, y : py_int(x) < py_int(y))

\* the episodes part of a series title; the seasons the episodes page
\* names go to the log ("Available seasons") and nowhere else
episodes_step(acc, tid, path, a, r, w) ==
    LET url == create_episodes_url(tid, None)
    IN  Bind(requests_get(w, url), LAMBDA got :
        Bind([acc EXCEPT !.fetches = Append(@, url)], LAMBDA acc1 :
            IF got.status # 200 THEN acc1
            ELSE Bind([acc1 EXCEPT !.seasons = Some(extract_seasons(got.page.index))],
                      LAMBDA acc1s :
                 Bind(determine_episodes(acc1.fs, path, a.episode_pattern),
                      LAMBDA seasons_episodes :
                 Bind(seasons_sorted(The(acc1s.seasons), seasons_episodes),
                      LAMBDA located :
                 Bind(fetch_seasons(acc1s, located, tid, w), LAMBDA acc2 :
                     IF acc2.exc # "" THEN acc2
                     ELSE emit_dirs(acc2, determine_dirs(path, TRUE), a, r)))))))

\* the body of the loop over the application/ld+json scripts.  A document
\* takes one document element: appending a second one raises
ld_block(acc, j, tid, path, a, r, w) ==
    IF acc.hasRoot THEN [acc EXCEPT !.exc = "HierarchyRequestErr"]
    ELSE Bind([acc EXCEPT !.hasRoot = TRUE, !.root = title_root(j, acc.preflang_title),
                          !.has_actors = Len(j.actor) > 0], LAMBDA acc1 :
         Bind(fanart_step(acc1, j.image, a.fanart, path, r, w), LAMBDA acc2 :
             IF acc2.exc # "" THEN acc2
             ELSE IF ~has_episodes(j) THEN acc2
             ELSE Bind([acc2 EXCEPT !.xml_name = FILENAME_TVSHOW,
                                    !.root = [@ EXCEPT !.tag = TAG_TVSHOW]],
                       LAMBDA acc3 :
                      IF a.episodes THEN episodes_step(acc3, tid, path, a, r, w)
                      ELSE acc3)))

RECURSIVE ld_blocks(_, _, _, _, _, _, _)
ld_blocks(acc, scripts, tid, path, a, r, w) ==
    IF Len(scripts) = 0 \/ acc.exc # "" THEN acc
    ELSE Bind(ld_block(acc, Head(scripts), tid, path, a, r, w), LAMBDA acc1 :
             ld_blocks(acc1, Tail(scripts), tid, path, a, r, w))

\* the cast fallback: the actors of the castPageTitle block of the page
cast_step(acc, cast) ==
    IF acc.hasRoot /\ ~acc.has_actors
    THEN [acc EXCEPT !.root = actor_nodes(@, cast)]
    ELSE acc

\* "output .nfo": multi-episode.nfo when asked for, then the title sidecar
output_step(acc, path, a, r) ==
    Bind(IF acc.hasRoot THEN [kids |-> <<acc.root>>] ELSE NewDocument, LAMBDA doc :
    Bind(IF a.multi_episodes
         THEN after_write(acc, output_str(acc.fs, r, acc.doc_multi, path,
                                          FILENAME_MULTI, a.dry_run,
                                          a.overwrite, TRUE))
         ELSE acc, LAMBDA acc1 :
        IF acc1.exc # "" THEN acc1
        ELSE after_write(acc1, output_xml(acc1.fs, r, doc, path, acc1.xml_name,
                                          a.dry_run, a.overwrite, TRUE))))

\* a title request that counts as answered whatever its status
status_ok_any(got) == TRUE

\* "if r.status_code != 200: ... return False", negated: the title request
\* was answered with the title
status_ok(got) == got.status = 200

\* generate_imdb(tid, fanart, path, overwrite, dry_run, episodes,
\* episode_pattern, multi_episodes) on file system f and site w.  The
\* return value is output_generated, unless exc tells an exception.
generate_imdb(f, r, w, tid0, path, a) ==
    LET tid == strip(tid0)
        acc0 == NewCall(f)
    IN  IF can_skip(f, path, a.overwrite) THEN [acc0 EXCEPT !.skipped = TRUE]
        ELSE LET url == IF startswith(tid, <<"h","t","t","p">>) THEN tid
                        ELSE title_url(tid)
             IN  Bind(requests_get(w, url), LAMBDA got :
                 Bind([acc0 EXCEPT !.fetches = <<url>>,
                                   !.xml_name = basename(path) \o NfoExt], LAMBDA acc1 :
                     IF ~status_ok(got) THEN acc1
                     ELSE Bind(ld_blocks([acc1 EXCEPT !.preflang_title = got.page.widget],
                                         got.page.ld, tid, path, a, r, w),
                               LAMBDA acc2 :
                              IF acc2.exc # "" THEN acc2
                              ELSE Bind(cast_step(acc2, got.page.cast), LAMBDA acc3 :
                                       output_step(acc3, path, a, r)))))

----------------------------------------------------------------------------
(* generate_omdb (kodi/omdb/_lib.py).                                      *)

OmdbUrl ==
    <<"h","t","t","p",":","/","/","w","w","w",".","o","m","d","b","a","p",
      "i",".","c","o","m","/">>

\* strip_id of kodi.io_utils, which the sources at hand do not hold: the
\* identifier trimmed and passed on otherwise unchanged
strip_id(tid) == strip(tid)

\* the root element built from the OMDb record j
omdb_root(j) ==
    LET uid == setAttribute(setAttribute(Node("uniqueid", Some(j.imdbID)),
                                         "type", "imdb"), "default", "true")
        r1 == add_node(Node(TAG_MOVIE, None), "title", Some(j.Title))
        r2 == appendChild(r1, uid)
    IN  add_node(r2, "director", j.Director)

\* the name of the title sidecar of an OMDb record
omdb_xml_name(j, path) ==
    IF j.Type = "series" THEN FILENAME_TVSHOW ELSE basename(path) \o NfoExt

\* generate_omdb(tid, key, fanart, path, overwrite, dry_run)
generate_omdb(f, r, w, tid0, path, a) ==
    LET tid == strip_id(tid0)
        acc0 == NewCall(f)
    IN  IF can_skip(f, path, a.overwrite) THEN [acc0 EXCEPT !.skipped = TRUE]
        ELSE Bind(requests_get_omdb(w, tid), LAMBDA got :
             Bind([acc0 EXCEPT !.fetches = <<OmdbUrl \o tid>>], LAMBDA acc1 :
                 IF ~status_ok(got) THEN acc1
                 ELSE Bind(got.page.j, LAMBDA j :
                      Bind([acc1 EXCEPT !.xml_name = omdb_xml_name(j, path),
                                        !.hasRoot = TRUE], LAMBDA acc2 :
                          IF IsNone(j.Director) THEN [acc2 EXCEPT !.exc = "KeyError"]
                          ELSE Bind([acc2 EXCEPT !.root = omdb_root(j)], LAMBDA acc3 :
                               Bind(fanart_step(acc3, j.Poster, a.fanart, path, r, w),
                                    LAMBDA acc4 :
                                   IF acc4.exc # "" THEN acc4
                                   ELSE after_write(acc4,
                                            output_xml(acc4.fs, r, [kids |-> <<acc4.root>>],
                                                       path, acc4.xml_name, a.dry_run,
                                                       a.overwrite, TRUE))))))))

----------------------------------------------------------------------------
(* Inputs: command line options, sites, disks.                             *)

FanartChoices == {"none", "download", "download-missing", "use-existing"}

\* the arguments generate_imdb / generate_omdb take from the options
GenArgs(o) ==
    [overwrite |-> o.overwrite, dry_run |-> o.dry_run, fanart |-> o.fanart,
     episodes |-> o.episodes, episode_pattern |-> o.episode_pattern,
     multi_episodes |-> o.multi_episodes]

Options(backends, patterns, recursives, interactives, delays) ==
    {o \in [backend : backends, overwrite : BOOLEAN, dry_run : BOOLEAN,
            fanart : FanartChoices, episodes : BOOLEAN,
            multi_episodes : BOOLEAN, episode_pattern : patterns,
            recursive : recursives, interactive : interactives,
            delay : delays, dir : {DirA}, pattern : {IdPattern}] :
        /\ o.backend = "omdb" => ~o.episodes /\ ~o.multi_episodes
        /\ o.episodes \/ o.multi_episodes => o.fanart = "none"}

NoOptions ==
    [backend |-> "imdb", overwrite |-> FALSE, dry_run |-> FALSE,
     fanart |-> "none", episodes |-> FALSE, multi_episodes |-> FALSE,
     episode_pattern |-> <<DefaultPattern>>, recursive |-> FALSE,
     interactive |-> FALSE, delay |-> 0, dir |-> DirA, pattern |-> IdPattern]

\* structured data of a title page: the keys that are always there, the
\* others absent
Payload(t, type, image) ==
    [type |-> Some(type), name |-> <<"M","o","v","i","e">>,
     url |-> <<"/","t","i","t","l","e","/">> \o t \o <<"/">>,
     image |-> image, actor |-> <<>>,
     description |-> None, contentRating |-> None, datePublished |-> None,
     director |-> <<>>, genre |-> None, trailer |-> None,
     aggregateRating |-> None]

Alice == <<"A","l","i","c","e">>
AFilm == <<"A"," ","f","i","l","m",".">>
Drama == <<"D","r","a","m","a">>

\* a movie with description, a list of one genre and one actor
DescribedPayload(t) ==
    [Payload(t, "Movie", None) EXCEPT
        !.description = Some(AFilm),
        !.genre = Some([list |-> TRUE, value |-> <<Drama>>]),
        !.actor = <<Alice>>]

\* a movie with every key: two directors, one of them without a name, the
\* genre a plain string
FullPayload(t) ==
    [Payload(t, "Movie", None) EXCEPT
        !.description = Some(AFilm),
        !.contentRating = Some(<<"P","G">>),
        !.datePublished = Some(<<"2","0","2","0","-","0","1","-","0","2">>),
        !.director = <<[name |-> Some(<<"B","o","b">>)], [name |-> None]>>,
        !.genre = Some([list |-> FALSE, value |-> Drama]),
        !.actor = <<Alice, <<"B","o","b">>>>,
        !.trailer = Some([embedUrl |-> Some(<<"/","v","i","d","e","o">>)]),
        !.aggregateRating = Some([ratingValue |-> Some(7)])]

\* a movie whose trailer and rating lack their inner key, the genre list empty
HollowPayload(t) ==
    [Payload(t, "Movie", None) EXCEPT
        !.genre = Some([list |-> TRUE, value |-> <<>>]),
        !.trailer = Some([embedUrl |-> None]),
        !.aggregateRating = Some([ratingValue |-> None])]

\* an item of the embedded JSON of a season page
Item(season, episode) ==
    [season |-> season, episode |-> episode, id |-> <<"t","t","9">>,
     titleText |-> <<"E","p">>, plot |-> None, aired |-> None,
     releaseDate |-> None, aggregateRating |-> None, voteCount |-> None]

\* an item with a plot, an air date, a rating and its votes
RichItem(season, episode) ==
    [Item(season, episode) EXCEPT
        !.plot = Some(<<"P","l","o","t">>),
        !.aired = Some(<<"2","0","2","0">>),
        !.releaseDate = Some([year |-> 2020, month |-> 1, day |-> 2]),
        !.aggregateRating = Some(8), !.voteCount = Some(5)]

\* an episode tag of the HTML of a season page
Tag(episode) ==
    [episode |-> Some(episode), id |-> <<"t","t","9">>, title |-> <<"E","p">>,
     plot |-> None, aired |-> None, rating |-> None, votes |-> None]

Page404 == [status |-> 404, json |-> <<>>, divs |-> <<>>, articles |-> <<>>]
PageJson(items) ==
    [status |-> 200, json |-> <<[episodes |-> Some([items |-> Some(items)])]>>,
     divs |-> <<>>, articles |-> <<>>]
PageDivs(tags) ==
    [status |-> 200, json |-> <<[episodes |-> Some([items |-> None])]>>,
     divs |-> tags, articles |-> <<>>]
PageNoKey ==
    [status |-> 200, json |-> <<[episodes |-> None]>>, divs |-> <<>>,
     articles |-> <<>>]

\* the season pages a site may answer season k with; one of them reports
\* its episode as "01"
SeasonPages(k) ==
    {Page404, PageNoKey,
     PageJson(<<Item(k, <<"1">>), RichItem(k, <<"2">>)>>),
     PageJson(<<Item(k, <<"1">>)>>),
     PageJson(<<Item(k, <<"0","1">>)>>),
     PageDivs(<<Tag(<<"1">>)>>)}

NoSeasons == [k \in SeasonKeys |-> Page404]

\* the episodes page of a title: no season dropdown, a tab for each of the
\* seasons 1 and 2
IndexTabs == [select |-> None, tabs |-> <<Season1, <<"2">>>>]

Site(status, ld, image_status, index_status, season) ==
    [status |-> status, ld |-> ld, cast |-> <<>>, widget |-> None,
     image_status |-> image_status, index_status |-> index_status,
     index |-> IndexTabs, season |-> season, episodes_link |-> FALSE]

\* a movie page with structured data j, a cast listing and a rating widget
MovieSite(j, cast, widget) ==
    [Site(200, <<j>>, 404, 404, NoSeasons) EXCEPT !.cast = cast, !.widget = widget]

\* a series page of an older generation: structured data without "@type",
\* and the link to the episodes
LegacySeriesSite(t) ==
    [MovieSite([Payload(t, "Movie", None) EXCEPT !.type = None], <<>>, None)
        EXCEPT !.episodes_link = TRUE]

\* the movie pages whose structured data goes beyond the keys always there,
\* and the series page of an older generation
MovieSites(t) ==
    {MovieSite(DescribedPayload(t), <<>>, None),
     MovieSite(FullPayload(t), <<Alice>>, None),
     MovieSite(HollowPayload(t), <<>>, Some(<<"F","i","l","m">>)),
     MovieSite(Payload(t, "Movie", None), <<Alice>>, None),
     LegacySeriesSite(t)}

Site404 == Site(404, <<>>, 404, 404, NoSeasons)

\* the images a payload may carry, with the status the image is answered with
Images(url) == {<<None, 404>>, <<Some(url), 200>>, <<Some(url), 404>>}

\* the answers of the season pages: season 1 varies over every kind of page,
\* season 3 is missing or lists one episode
SeasonAnswers ==
    {se \in [SeasonKeys -> SeasonPages(Season1) \cup SeasonPages(Season3)] :
        /\ se[Season1] \in SeasonPages(Season1)
        /\ se[Season3] \in {Page404, PageJson(<<Item(Season3, <<"1">>)>>)}}

\* the sites of title t: gone, without structured data, with more than one
\* block of it, a movie, a series; with seasons the season pages vary,
\* without them the image does
Sites(t, seasons) ==
    {Site404, Site(200, <<>>, 404, 404, NoSeasons)}
    \cup {Site(200, [i \in 1..n |-> Payload(t, "Movie", None)], 404, 404, NoSeasons) :
            n \in 2..MaxLd}
    \cup (IF seasons
          THEN {Site(200, <<Payload(t, type, None)>>, 404, 404, NoSeasons) :
                  type \in {"Movie", "TVSeries"}}
               \cup {Site(200, <<Payload(t, "TVSeries", None)>>, 404, 200, se) :
                       se \in SeasonAnswers}
          ELSE {Site(200, <<Payload(t, type, im[1])>>, im[2], 404, NoSeasons) :
                  type \in {"Movie", "TVSeries"}, im \in Images(image_url(t))}
               \cup MovieSites(t))

OmdbRecord(t, type, poster) ==
    [Type |-> type, Title |-> <<"M","o","v","i","e">>, imdbID |-> t,
     Director |-> Some(<<"A","l","i","c","e">>), Poster |-> poster]

Omdb404 ==
    [status |-> 404, image_status |-> 404, j |-> OmdbRecord(Tid1, "movie", None)]

OmdbSites(t) ==
    {Omdb404}
    \cup {[status |-> 200, image_status |-> im[2], j |-> OmdbRecord(t, type, im[1])] :
            type \in {"movie", "series"}, im \in Images(poster_url(t))}

\* the titles the search is asked for: the names of the directories
Titles == {basename(d) : d \in DirPaths}

\* the answer of a title search: no result list in it
NoResults == [status |-> 404, results |-> None]

NoWeb ==
    [site |-> [t \in Tids |-> Site404], omdb |-> [t \in Tids |-> Omdb404],
     search |-> [t \in Titles |-> NoResults]]

\* the sites an invocation with options o may meet for title Tid1
GenWebs(o) ==
    IF o.backend = "imdb"
    THEN {[NoWeb EXCEPT !.site[Tid1] = s] : s \in Sites(Tid1, o.episodes)}
    ELSE {[NoWeb EXCEPT !.omdb[Tid1] = s] : s \in OmdbSites(Tid1)}

IdEntry(i, tid) == Entry(IdFile(i), <<RawLine(tid \o <<"\n">>)>>)

\* a disk with entries a in /m/A and s1 in /m/A/s1
Disk(a, s1) ==
    [d \in DirPaths |-> IF d = DirA THEN a ELSE IF d = DirS1 THEN s1 ELSE <<>>]

\* the disks generate is called on: /m/A holds an id file and, one by one,
\* nothing else, an old sidecar of either name, a fanart image, episode
\* files here and in a season folder, an old episode sidecar, an old
\* multi-episode file
GenDisks ==
    LET id == IdEntry(1, Tid1)
        movieNfo == Entry(basename(DirA) \o NfoExt, OldData)
        showNfo == Entry(FILENAME_TVSHOW, OldData)
    IN  {Disk(<<id>>, <<>>),
         Disk(<<id, movieNfo>>, <<>>),
         Disk(<<id, showNfo, Entry(F_S01E02, MediaData)>>, <<>>),
         Disk(<<id, Entry(FanartFile, ImageData)>>, <<>>),
         Disk(<<id, Entry(F_S01E02, MediaData), Entry(F_S01E01, MediaData)>>,
              <<Entry(F_S03E01, MediaData)>>),
         Disk(<<id, Entry(F_S01E02, MediaData), Entry(N_S01E02, OldData)>>,
              <<Entry(F_S01E01, MediaData)>>),
         Disk(<<id, Entry(F_S01E01, MediaData), Entry(FILENAME_MULTI, OldData)>>,
              <<>>)}

\* the first line of an id file, stripped
read_id(f, d, name) == strip(read(f, d, name)[1][4])

----------------------------------------------------------------------------
(* Calls of the generators.                                                *)

\* the title sidecar of a directory, if any: its path and its data
sidecar(f, path) ==
    LET n == get_nfo_file(f, path)
    IN  IF IsNone(n) THEN None
        ELSE Some(<<The(n), read(f, path, basename(The(n)))>>)

\* what a call left in "last"
CallRecord(op, f, path, tid, a, acc) ==
    [op |-> op, path |-> path, tid |-> tid, a |-> a,
     ret |-> acc.exc = "" /\ acc.output_generated, exc |-> acc.exc,
     fetches |-> acc.fetches, wrote |-> acc.wrote, emitted |-> acc.emitted,
     matched |-> acc.matched, fanart_act |-> acc.fanart_act,
     skipped |-> acc.skipped, xml_name |-> acc.xml_name,
     seasons |-> acc.seasons,
     before |-> f,
     hadSidecar |-> ~IsNone(get_nfo_file(f, path)),
     hadFanart |-> exists(f, path, FanartFile)]

\* what a call left in "trace"
Summary(path, f2, rec) ==
    [path |-> path, ret |-> rec.ret, exc |-> rec.exc,
     nfetch |-> Len(rec.fetches), sidecar |-> sidecar(f2, path)]

NoCall == [op |-> "none"]

\* generate_imdb called for the id file of /m/A
CallGenerateImdb ==
    /\ pc = "lib" /\ ns.backend = "imdb" /\ calls < MaxCalls
    /\ LET tid == read_id(fs, DirA, IdFile(1))
           acc == generate_imdb(fs, ro, web, tid, DirA, GenArgs(ns))
           rec == CallRecord("generate_imdb", fs, DirA, tid, GenArgs(ns), acc)
       IN  /\ fs' = acc.fs
           /\ last' = rec
           /\ trace' = Append(trace, Summary(DirA, acc.fs, rec))
    /\ calls' = calls + 1
    /\ UNCHANGED <<ro, web, ns, env, pc, todo, ids, visited>>

\* generate_omdb called for the id file of /m/A
CallGenerateOmdb ==
    /\ pc = "lib" /\ ns.backend = "omdb" /\ calls < MaxCalls
    /\ LET tid == read_id(fs, DirA, IdFile(1))
           acc == generate_omdb(fs, ro, web, tid, DirA, GenArgs(ns))
           rec == CallRecord("generate_omdb", fs, DirA, tid, GenArgs(ns), acc)
       IN  /\ fs' = acc.fs
           /\ last' = rec
           /\ trace' = Append(trace, Summary(DirA, acc.fs, rec))
    /\ calls' = calls + 1
    /\ UNCHANGED <<ro, web, ns, env, pc, todo, ids, visited>>

NoEnv == [kodi_env |-> FALSE, imdb_lib |-> FALSE, omdb_lib |-> FALSE]

GenInit ==
    /\ ns \in Options({"imdb", "omdb"}, {<<DefaultPattern>>}, {FALSE}, {FALSE}, {0})
    /\ web \in GenWebs(ns)
    /\ fs \in GenDisks
    /\ ro \in IF Len(fs[DirA]) <= 2 \/ Len(fs[DirS1]) > 0
              THEN {{}, {DirA}} ELSE {{}}
    /\ env = NoEnv
    /\ pc = "lib" /\ todo = <<>> /\ ids = <<>> /\ trace = <<>>
    /\ last = NoCall /\ calls = 0 /\ visited = <<>>

GenNext == CallGenerateImdb \/ CallGenerateOmdb

GenSpec == GenInit /\ [][GenNext]_vars

\* the disks whose id file holds the title as the URL of its page: /m/A
\* with nothing else, or with episode files here and in a season folder
UrlDisks ==
    LET id == IdEntry(1, title_url(Tid1))
    IN  {Disk(<<id>>, <<>>),
         Disk(<<id, Entry(F_S01E02, MediaData), Entry(F_S01E01, MediaData)>>,
              <<Entry(F_S03E01, MediaData)>>)}

\* generate_imdb on an id file that holds a URL
UrlInit ==
    /\ ns \in Options({"imdb"}, {<<DefaultPattern>>}, {FALSE}, {FALSE}, {0})
    /\ web \in GenWebs(ns)
    /\ fs \in UrlDisks
    /\ ro = {} /\ env = NoEnv
    /\ pc = "lib" /\ todo = <<>> /\ ids = <<>> /\ trace = <<>>
    /\ last = NoCall /\ calls = 0 /\ visited = <<>>

UrlSpec == UrlInit /\ [][CallGenerateImdb]_vars

----------------------------------------------------------------------------
(* Calls of the writers.                                                   *)

\* the documents handed to output_xml: an empty one and a movie
WriterDocs == {NewDocument, [kids |-> <<title_root(Payload(Tid1, "Movie", None), None)>>]}

\* the contents handed to output_str: none, and the lines of an episode
WriterContents == {<<>>, toprettyxml(episode_to_xml(json_episode(Item(Season1, <<"1">>))))}

WriterNames == {basename(DirA) \o NfoExt, FILENAME_MULTI}

\* the disks the writers are called on: the targets exist or do not
WriterDisks ==
    {Disk(SelectSeq(<<Entry(basename(DirA) \o NfoExt, OldData),
                      Entry(FILENAME_MULTI, OldData)>>,
                    LAMBDA e : e.name \in present), <<>>) :
        present \in SUBSET WriterNames}

\* what a writer call left in "last"
WriterRecord(op, f, r, d, name, data, dry_run, overwrite, logger, res) ==
    [op |-> op, path |-> d, name |-> name, data |-> data, dry_run |-> dry_run,
     overwrite |-> overwrite, logger |-> logger, ret |-> res.ret,
     exc |-> res.exc, wrote |-> res.wrote, before |-> f,
     readonly |-> d \in r]

\* output_xml called on a file of /m/A
CallOutputXml ==
    /\ pc = "writers" /\ calls < MaxCalls
    /\ \E doc \in WriterDocs, name \in WriterNames,
          dry_run \in BOOLEAN, overwrite \in BOOLEAN, logger \in BOOLEAN :
         LET res == output_xml(fs, ro, doc, DirA, name, dry_run, overwrite, logger)
         IN  /\ fs' = res.fs
             /\ last' = WriterRecord("output_xml", fs, ro, DirA, name,
                                     toprettyxml(doc), dry_run, overwrite, logger, res)
    /\ calls' = calls + 1
    /\ UNCHANGED <<ro, web, ns, env, pc, todo, ids, trace, visited>>

\* output_str called on a file of /m/A
CallOutputStr ==
    /\ pc = "writers" /\ calls < MaxCalls
    /\ \E content \in WriterContents, name \in WriterNames,
          dry_run \in BOOLEAN, overwrite \in BOOLEAN, logger \in BOOLEAN :
         LET res == output_str(fs, ro, content, DirA, name, dry_run, overwrite, logger)
         IN  /\ fs' = res.fs
             /\ last' = WriterRecord("output_str", fs, ro, DirA, name, content,
                                     dry_run, overwrite, logger, res)
    /\ calls' = calls + 1
    /\ UNCHANGED <<ro, web, ns, env, pc, todo, ids, trace, visited>>

WriterInit ==
    /\ fs \in WriterDisks
    /\ ro \in {{}, {DirA}}
    /\ web = NoWeb /\ ns = NoOptions /\ env = NoEnv
    /\ pc = "writers" /\ todo = <<>> /\ ids = <<>> /\ trace = <<>>
    /\ last = NoCall /\ calls = 0 /\ visited = <<>>

WriterNext == CallOutputXml \/ CallOutputStr

WriterSpec == WriterInit /\ [][WriterNext]_vars

----------------------------------------------------------------------------
(* Calls of the disk scan.                                                 *)

ScanNames == {F_S01E02, F_S1E2, F_S001E002, F_S01E01, N_S01E02}

\* the disks the scan is called on: any of the episode files, in /m/A
ScanDisks ==
    {Disk(SelectSeq(<<Entry(F_S01E02, MediaData), Entry(F_S1E2, MediaData),
                      Entry(F_S001E002, MediaData), Entry(F_S01E01, MediaData),
                      Entry(N_S01E02, OldData)>>,
                    LAMBDA e : e.name \in present), <<>>) :
        present \in SUBSET ScanNames}

ScanPatterns == {<<DefaultPattern>>, <<MkvPattern>>, <<DefaultPattern, MkvPattern>>}

\* extract_season_episode called on a file name, with the default regexes
CallExtractSeasonEpisode ==
    /\ pc = "scan" /\ calls < MaxCalls
    /\ \E name \in ScanNames :
         last' = [op |-> "extract_season_episode", name |-> name,
                  ret |-> extract_season_episode(name)]
    /\ calls' = calls + 1
    /\ UNCHANGED <<fs, ro, web, ns, env, pc, todo, ids, trace, visited>>

\* determine_episodes called on /m/A, with the default regexes
CallDetermineEpisodes ==
    /\ pc = "scan" /\ calls < MaxCalls
    /\ last' = [op |-> "determine_episodes", path |-> DirA,
                episode_pattern |-> ns.episode_pattern,
                ret |-> determine_episodes(fs, DirA, ns.episode_pattern)]
    /\ calls' = calls + 1
    /\ UNCHANGED <<fs, ro, web, ns, env, pc, todo, ids, trace, visited>>

ScanInit ==
    /\ fs \in ScanDisks
    /\ ns \in {[NoOptions EXCEPT !.episode_pattern = p] : p \in ScanPatterns}
    /\ ro = {} /\ web = NoWeb /\ env = NoEnv
    /\ pc = "scan" /\ todo = <<>> /\ ids = <<>> /\ trace = <<>>
    /\ last = NoCall /\ calls = 0 /\ visited = <<>>

ScanNext == CallExtractSeasonEpisode \/ CallDetermineEpisodes

ScanSpec == ScanInit /\ [][ScanNext]_vars

----------------------------------------------------------------------------
(* Calls of the season page parsers.                                       *)

\* a div or an article that names no episode
TagWithoutEpisode == [Tag(<<"1">>) EXCEPT !.episode = None]

\* the application/json scripts a season page may hold: none, or up to
\* MaxScripts of them, each with or without "episodes" and "items"
SoupScripts ==
    LET blocks == {[episodes |-> None],
                   [episodes |-> Some([items |-> None])],
                   [episodes |-> Some([items |-> Some(<<Item(Season1, <<"1">>)>>)])]}
    IN  UNION {[1..n -> blocks] : n \in 0..MaxScripts}

\* the season pages the parsers are called on
Soups ==
    {[status |-> 200, json |-> js, divs |-> ds, articles |-> as] :
        js \in SoupScripts,
        ds \in {<<>>, <<Tag(<<"1">>)>>, <<TagWithoutEpisode>>},
        as \in {<<>>, <<Tag(<<"2">>)>>, <<TagWithoutEpisode>>}}

\* the page the parsers are called on
Soup == web.site[Tid1].season[Season1]

\* the json/html steps of the season loop of generate_imdb, on one page
CallSeasonEpisodes ==
    /\ pc = "pages" /\ calls < MaxCalls
    /\ LET st == season_episodes(Soup, Season1)
       IN  last' = [op |-> "season_episodes", exc |-> st.exc,
                    use_fallback |-> st.use_fallback, data |-> st.data]
    /\ calls' = calls + 1
    /\ UNCHANGED <<fs, ro, web, ns, env, pc, todo, ids, trace, visited>>

\* extract_episodes_html called on one page
CallExtractEpisodesHtml ==
    /\ pc = "pages" /\ calls < MaxCalls
    /\ last' = [op |-> "extract_episodes_html",
                ret |-> extract_episodes_html(Soup, Season1)]
    /\ calls' = calls + 1
    /\ UNCHANGED <<fs, ro, web, ns, env, pc, todo, ids, trace, visited>>

PageInit ==
    /\ web \in {[NoWeb EXCEPT !.site[Tid1].season[Season1] = p] : p \in Soups}
    /\ fs = Disk(<<>>, <<>>) /\ ns = NoOptions
    /\ ro = {} /\ env = NoEnv
    /\ pc = "pages" /\ todo = <<>> /\ ids = <<>> /\ trace = <<>>
    /\ last = NoCall /\ calls = 0 /\ visited = <<>>

PageNext == CallSeasonEpisodes \/ CallExtractEpisodesHtml

PageSpec == PageInit /\ [][PageNext]_vars

----------------------------------------------------------------------------
(* The batch loops iterate_imdb / iterate_omdb.  The two functions differ  *)
(* in the generator they call; ns.backend tells which one runs.            *)

\* setup_env(parsed, logger): the global of kodi.env is rebound; the names
\* the two libraries imported from it keep the value they were bound to
setup_env(e, parsed) == [e EXCEPT !.kodi_env = parsed.interactive]

\* the name "interactive" as the running library sees it
lib_interactive(e, backend) ==
    IF backend = "imdb" THEN e.imdb_lib ELSE e.omdb_lib

\* the generator of the backend
generate(backend, f, r, w, tid, path, a) ==
    IF backend = "imdb" THEN generate_imdb(f, r, w, tid, path, a)
    ELSE generate_omdb(f, r, w, tid, path, a)

\* a generate call outside of any try block
try_generate_uncaught(acc) ==
    [file_generated |-> acc.exc = "" /\ acc.output_generated,
     propagates |-> acc.exc # ""]

\* try: file_generated = generate(..) except Exception: log the traceback
try_generate(acc) ==
    [file_generated |-> acc.exc = "" /\ acc.output_generated,
     propagates |-> FALSE]

\* a pause after every id file, whatever came of it
sleep_time_always(file_generated, delay) == delay

\* "if file_generated and (delay > 0): time.sleep(delay)": the time slept
sleep_time(file_generated, delay) ==
    IF file_generated /\ delay > 0 THEN delay ELSE 0

\* the answers the prompts skip() and proceed() may get, when they are shown
Answers(shown) == IF shown THEN BOOLEAN ELSE {FALSE}

\* what the loop body left in "trace" for one id file
BatchEntry(path, id_filename, tid, rec, asked_skip, stopped, slept, prompts) ==
    [path |-> path, id_filename |-> id_filename, tid |-> tid,
     called |-> rec.op # "none",
     ret |-> rec.op # "none" /\ rec.ret,
     exc |-> IF rec.op = "none" THEN "" ELSE rec.exc,
     skipped |-> rec.op # "none" /\ rec.skipped,
     nfetch |-> IF rec.op = "none" THEN 0 ELSE Len(rec.fetches),
     asked_skip |-> asked_skip, stopped |-> stopped, slept |-> slept,
     prompts |-> prompts, dry_run |-> ns.dry_run]

\* iterate_*: setup_env, the directories to inspect, sorted
iterate_setup ==
    /\ pc = "main"
    /\ env' = setup_env(env, ns)
    /\ todo' = sort(determine_dirs(ns.dir, ns.recursive))
    /\ pc' = "dirs"
    /\ UNCHANGED <<fs, ro, web, ns, ids, trace, last, calls, visited>>

\* "for d in dirs": the id files of the next directory
iterate_dir ==
    /\ pc = "dirs" /\ Len(todo) > 0
    /\ visited' = Append(visited, Head(todo))
    /\ ids' = fnmatch_filter(listdir(fs, Head(todo)), ns.pattern)
    /\ pc' = "ids"
    /\ UNCHANGED <<fs, ro, web, ns, env, todo, trace, last, calls>>

\* the body of "for id_filename in id_filenames" for the id file at hand,
\* given the answers to the prompts: what it leaves in fs, last, calls,
\* trace, ids and pc
iterate_body(skip_answer, proceed_answer) ==
    LET d == Head(todo)
        id_filename == Head(ids)
        id == read_id(fs, d, id_filename)
        interactive == lib_interactive(env, ns.backend)
        delay == IF interactive THEN 0 ELSE ns.delay
    IN  IF interactive /\ skip_answer
        THEN [fs |-> fs, last |-> last, calls |-> calls, pc |-> pc,
              trace |-> Append(trace, BatchEntry(d, id_filename, id, NoCall,
                                                 TRUE, ~proceed_answer, 0, 2)),
              ids |-> IF proceed_answer THEN Tail(ids) ELSE <<>>]
        ELSE Bind(generate(ns.backend, fs, ro, web, id, d, GenArgs(ns)), LAMBDA acc :
             Bind(CallRecord(IF ns.backend = "imdb" THEN "generate_imdb"
                             ELSE "generate_omdb",
                             fs, d, id, GenArgs(ns), acc), LAMBDA rec :
             Bind(try_generate(acc), LAMBDA res :
                 LET stop == interactive /\ ~proceed_answer
                     slept == IF stop THEN 0
                              ELSE sleep_time(res.file_generated, delay)
                 IN  [fs |-> acc.fs, last |-> rec, calls |-> calls + 1,
                      trace |-> Append(trace, BatchEntry(d, id_filename, id, rec,
                                                         FALSE, stop, slept,
                                                         IF interactive THEN 2 ELSE 0)),
                      pc |-> IF res.propagates THEN "aborted" ELSE pc,
                      ids |-> IF res.propagates THEN ids
                              ELSE IF stop THEN <<>> ELSE Tail(ids)])))

\* "for id_filename in id_filenames": one id file is gone through
iterate_id ==
    /\ pc = "ids" /\ Len(ids) > 0
    /\ \E skip_answer \in Answers(lib_interactive(env, ns.backend)),
          proceed_answer \in Answers(lib_interactive(env, ns.backend)) :
         \E out \in {iterate_body(skip_answer, proceed_answer)} :
            /\ fs' = out.fs
            /\ last' = out.last
            /\ calls' = out.calls
            /\ trace' = out.trace
            /\ ids' = out.ids
            /\ pc' = out.pc
    /\ UNCHANGED <<ro, web, ns, env, todo, visited>>

\* the id files of the directory are through: on to the next directory
iterate_dir_end ==
    /\ pc = "ids" /\ Len(ids) = 0
    /\ todo' = Tail(todo)
    /\ pc' = "dirs"
    /\ UNCHANGED <<fs, ro, web, ns, env, ids, trace, last, calls, visited>>

\* the directories are through: the function returns
iterate_end ==
    /\ pc = "dirs" /\ Len(todo) = 0
    /\ pc' = "done"
    /\ UNCHANGED <<fs, ro, web, ns, env, todo, ids, trace, last, calls, visited>>

\* the title an id file names: tt1 for 1.imdb, tt2 for 2.imdb, in turn
IdTid(i) == IF i % 2 = 1 THEN Tid1 ELSE Tid2

\* the disks of a batch: /m/A holds n id files and maybe an old sidecar,
\* /m/B holds an id file
BatchDisks ==
    {[d \in DirPaths |->
        IF d = DirA
        THEN [i \in 1..n |-> IdEntry(i, IdTid(i))]
             \o (IF old THEN <<Entry(basename(DirA) \o NfoExt, OldData)>> ELSE <<>>)
        ELSE IF d = DirB THEN <<IdEntry(1, Tid2)>>
        ELSE <<>>] :
        n \in 1..MaxIdFiles, old \in BOOLEAN}

\* the OMDb record of a title without the "Director" key
OmdbNoDirector(t) ==
    [status |-> 200, image_status |-> 404,
     j |-> [OmdbRecord(t, "movie", None) EXCEPT !.Director = None]]

\* the providers of a batch: each title is gone, fine, or a page that makes
\* the generator raise
BatchWebs(backend) ==
    IF backend = "imdb"
    THEN {[NoWeb EXCEPT !.site[Tid1] = s1, !.site[Tid2] = s2] :
            s1 \in {Site404,
                    Site(200, <<Payload(Tid1, "Movie", None)>>, 404, 404, NoSeasons),
                    Site(200, [i \in 1..2 |-> Payload(Tid1, "Movie", None)],
                         404, 404, NoSeasons)},
            s2 \in {Site404,
                    Site(200, <<Payload(Tid2, "Movie", None)>>, 404, 404, NoSeasons)}}
    ELSE {[NoWeb EXCEPT !.omdb[Tid1] = s1, !.omdb[Tid2] = s2] :
            s1 \in {Omdb404,
                    [status |-> 200, image_status |-> 404,
                     j |-> OmdbRecord(Tid1, "movie", None)],
                    OmdbNoDirector(Tid1)},
            s2 \in {Omdb404,
                    [status |-> 200, image_status |-> 404,
                     j |-> OmdbRecord(Tid2, "movie", None)]}}

\* the options of a batch: where it starts, and the interactive and delay
\* options
BatchOptions ==
    {[NoOptions EXCEPT !.backend = b, !.dir = dr[1], !.recursive = dr[2],
                       !.interactive = i, !.delay = dl] :
        b \in {"imdb", "omdb"},
        dr \in {<<DirM, TRUE>>, <<DirA, FALSE>>, <<DirA, TRUE>>},
        i \in BOOLEAN, dl \in {0, 1}}
    \cup {[NoOptions EXCEPT !.backend = b, !.dir = DirA, !.delay = 1,
                            !.dry_run = TRUE] : b \in {"imdb", "omdb"}}

BatchInit ==
    /\ ns \in BatchOptions
    /\ web \in BatchWebs(ns.backend)
    /\ fs \in BatchDisks
    /\ ro \in {{}, {DirA}}
    /\ env = NoEnv
    /\ pc = "main" /\ todo = <<>> /\ ids = <<>> /\ trace = <<>>
    /\ last = NoCall /\ calls = 0 /\ visited = <<>>

BatchNext ==
    \/ iterate_setup
    \/ iterate_dir
    \/ iterate_id
    \/ iterate_dir_end
    \/ iterate_end

BatchSpec == BatchInit /\ [][BatchNext]_vars

\* "from kodi.env import interactive" binds the value kodi.env holds when the
\* library is imported: True when setup_env has stored an interactive run in
\* this process before the import
LateImportEnv == [kodi_env |-> TRUE, imdb_lib |-> TRUE, omdb_lib |-> TRUE]

\* a batch of a library imported after an interactive run was set up
PromptInit ==
    /\ ns \in {o \in BatchOptions : ~o.dry_run /\ o.delay = 1}
    /\ web \in BatchWebs(ns.backend)
    /\ fs \in BatchDisks
    /\ ro = {}
    /\ env = LateImportEnv
    /\ pc = "main" /\ todo = <<>> /\ ids = <<>> /\ trace = <<>>
    /\ last = NoCall /\ calls = 0 /\ visited = <<>>

PromptSpec == PromptInit /\ [][BatchNext]_vars

\* the interpreter runs the loop on: a step that can be taken is taken
FairBatchSpec == BatchSpec /\ WF_vars(BatchNext)

----------------------------------------------------------------------------
(* The guess loops iterate_guess_imdb / iterate_guess_omdb (and guess of   *)
(* guess.py, the same loop around guess_imdb).                             *)

ChoiceNone == <<"0">>
ChoiceExit == <<"X">>

\* the choices the prompt of a result list accepts: "1".."n", "0", "X"
guess_choices(results) ==
    [i \in 1..Len(results) |-> py_str(i)] \o <<ChoiceNone, ChoiceExit>>

\* the end of guess_imdb / guess_omdb, from the selection on: exit, none
\* of the above, or a result whose id is written to the id file; the
\* current id of an id file at hand only marks a printed line
guess_select(f, results, d, name, dry_run, choice) ==
    IF choice = ChoiceExit
    THEN [fs |-> f, ret |-> Some(FALSE), exc |-> "", prompted |-> TRUE]
    ELSE IF choice = ChoiceNone
    THEN [fs |-> f, ret |-> Some(TRUE), exc |-> "", prompted |-> TRUE]
    ELSE [fs |-> IF dry_run THEN f
                 ELSE write(f, d, name, <<RawLine(results[py_int(choice)])>>),
          ret |-> Some(TRUE), exc |-> "", prompted |-> TRUE]

\* guess_imdb: a page without a result list falls off the loop over the
\* scripts and returns None
guess_imdb(f, w, title, d, name, dry_run, choice) ==
    LET r == w.search[title]
    IN  IF IsNone(r.results)
        THEN [fs |-> f, ret |-> None, exc |-> "", prompted |-> FALSE]
        ELSE guess_select(f, The(r.results), d, name, dry_run, choice)

\* guess_omdb: an answer without "Search" raises at j["Search"]
guess_omdb(f, w, title, d, name, dry_run, choice) ==
    LET r == w.search[title]
    IN  IF IsNone(r.results)
        THEN [fs |-> f, ret |-> None, exc |-> "KeyError", prompted |-> FALSE]
        ELSE guess_select(f, The(r.results), d, name, dry_run, choice)

\* what the user may enter at the prompt of title, if it is shown
GuessAnswers(w, title) ==
    IF IsNone(w.search[title].results) THEN {<<>>}
    ELSE Range(guess_choices(The(w.search[title].results)))

\* iterate_guess_*: setup_env, the directories to inspect, sorted
iterate_guess_setup ==
    /\ pc = "guess"
    /\ env' = setup_env(env, ns)
    /\ todo' = sort(determine_dirs(ns.dir, ns.recursive))
    /\ pc' = "guess_dirs"
    /\ UNCHANGED <<fs, ro, web, ns, ids, trace, last, calls, visited>>

\* the body of "for d in dirs": a directory with an id file is left alone
\* unless files are overwritten; else the title is searched and the user
\* asked; what guess_* returns is dropped, what it raises is logged
iterate_guess_dir ==
    /\ pc = "guess_dirs" /\ Len(todo) > 0
    /\ LET d == Head(todo)
           dname == basename(d)
           name == dname \o <<".","i","m","d","b">>
       IN  IF ~ns.overwrite /\ Len(fnmatch_filter(listdir(fs, d), ns.pattern)) > 0
           THEN /\ trace' = Append(trace, [path |-> d, called |-> FALSE,
                                           choice |-> <<>>, ret |-> None,
                                           exc |-> "", before |-> fs])
                /\ UNCHANGED <<fs, last>>
           ELSE \E choice \in GuessAnswers(web, dname) :
                  LET res == IF ns.backend = "imdb"
                             THEN guess_imdb(fs, web, dname, d, name, ns.dry_run, choice)
                             ELSE guess_omdb(fs, web, dname, d, name, ns.dry_run, choice)
                      rec == [op |-> IF ns.backend = "imdb" THEN "guess_imdb"
                                     ELSE "guess_omdb",
                              path |-> d, called |-> TRUE, choice |-> choice,
                              ret |-> res.ret, exc |-> res.exc, before |-> fs]
                  IN  /\ fs' = res.fs
                      /\ last' = rec
                      /\ trace' = Append(trace, [path |-> d, called |-> TRUE,
                                                 choice |-> choice, ret |-> res.ret,
                                                 exc |-> res.exc, before |-> fs])
    /\ visited' = Append(visited, Head(todo))
    /\ todo' = Tail(todo)
    /\ UNCHANGED <<ro, web, ns, env, pc, ids, calls>>

\* the directories are through: the function returns
iterate_guess_end ==
    /\ pc = "guess_dirs" /\ Len(todo) = 0
    /\ pc' = "done"
    /\ UNCHANGED <<fs, ro, web, ns, env, todo, ids, trace, last, calls, visited>>

\* the answers of a title search: no result list, an empty one, one with
\* the two titles
SearchAnswers ==
    {NoResults, [status |-> 200, results |-> Some(<<>>)],
     [status |-> 200, results |-> Some(<<Tid1, Tid2>>)]}

\* the disks of a guess run: /m/A with or without an id file of its name
GuessDisks ==
    {Disk(<<>>, <<>>),
     Disk(<<Entry(basename(DirA) \o <<".","i","m","d","b">>,
                  <<RawLine(Tid2)>>)>>, <<>>)}

GuessInit ==
    /\ ns \in {[NoOptions EXCEPT !.backend = b, !.dir = dr[1], !.recursive = dr[2],
                                  !.overwrite = o, !.dry_run = dry] :
                  b \in {"imdb", "omdb"},
                  dr \in {<<DirM, TRUE>>, <<DirA, FALSE>>},
                  o \in BOOLEAN, dry \in BOOLEAN}
    /\ web \in {[NoWeb EXCEPT !.search = [t \in Titles |-> a]] : a \in SearchAnswers}
    /\ fs \in GuessDisks
    /\ ro = {} /\ env = NoEnv
    /\ pc = "guess" /\ todo = <<>> /\ ids = <<>> /\ trace = <<>>
    /\ last = NoCall /\ calls = 0 /\ visited = <<>>

GuessNext == iterate_guess_setup \/ iterate_guess_dir \/ iterate_guess_end

GuessSpec == GuessInit /\ [][GuessNext]_vars

----------------------------------------------------------------------------
(* Properties.  What a property expects is computed from the disk before   *)
(* the call (last.before), the disk after it (fs) and the provider (web).  *)

IsGenerate == last.op \in {"generate_imdb", "generate_omdb"}
IsWriter == last.op \in {"output_xml", "output_str"}

MovieNfo(path) == basename(path) \o NfoExt

\* a title sidecar of either name was in the directory before the call
HadTitleSidecar ==
    \/ MovieNfo(last.path) \in Range(FileNames(last.before, last.path))
    \/ FILENAME_TVSHOW \in Range(FileNames(last.before, last.path))

\* C1 (skip-existing): a generate_imdb / generate_omdb call with
\* overwrite=false on a directory that holds <basename>.nfo or tvshow.nfo
\* sends no request, opens no file for writing, leaves the disk as it was
\* and returns False without raising.
C1_SkipExisting ==
    (IsGenerate /\ ~last.a.overwrite /\ HadTitleSidecar)
        => /\ last.fetches = <<>>
           /\ last.wrote = <<>>
           /\ fs = last.before
           /\ last.ret = FALSE
           /\ last.exc = ""

\* the skip happened on a directory holding tvshow.nfo only, for a title the
\* provider would have answered
C1_Witness ==
    /\ IsGenerate /\ ~last.a.overwrite
    /\ FILENAME_TVSHOW \in Range(FileNames(last.before, last.path))
    /\ MovieNfo(last.path) \notin Range(FileNames(last.before, last.path))
    /\ web.site[Tid1].status = 200
    /\ last.fetches = <<>>

\* C2 as stated (idempotence): with overwrite=false every run after the
\* first leaves the title sidecar as the first run left it and sends no
\* request, whatever the provider answered.
C2_Idempotence ==
    (~ns.overwrite /\ Len(trace) >= 2)
        => \A i \in 2..Len(trace) :
               /\ trace[i].sidecar = trace[1].sidecar
               /\ trace[i].nfetch = 0

\* C2 amended: with overwrite=false every run after the first leaves the
\* title sidecar as the first run left it; it sends no request if the first
\* run left a title sidecar, and it sends the title request again if the
\* first run left none.
C2_IdempotenceAfterSidecar ==
    (~ns.overwrite /\ Len(trace) >= 2)
        => \A i \in 2..Len(trace) :
               /\ trace[i].sidecar = trace[1].sidecar
               /\ ~IsNone(trace[1].sidecar) => trace[i].nfetch = 0
               /\ IsNone(trace[1].sidecar) => trace[i].nfetch > 0

\* the first run fetched and wrote the sidecar, a second run followed
C2_Witness ==
    /\ ~ns.overwrite /\ Len(trace) >= 2
    /\ trace[1].nfetch > 0 /\ trace[1].ret
    /\ ~IsNone(trace[1].sidecar)
    /\ trace[2].nfetch = 0

\* the title request of an entry of the batch was answered with a bad status
BadStatus(e) ==
    /\ e.called /\ ~e.skipped
    /\ (IF ns.backend = "imdb" THEN web.site[e.tid].status
        ELSE web.omdb[e.tid].status) # 200

\* generating for an entry of the batch failed
Failed(e) == e.exc # "" \/ BadStatus(e)

\* every directory was entered, in sorted order, and every id file of every
\* directory was handed to the generator, in listing order
BatchComplete ==
    LET dirs == sort(determine_dirs(ns.dir, ns.recursive))
        expected == Flatten(MapSeq(dirs, LAMBDA d :
                        MapSeq(SelectSeq(FileNames(fs, d),
                                         LAMBDA n : endswith(n, Tail(IdPattern))),
                               LAMBDA n : <<d, n>>)))
    IN  /\ visited = dirs
        /\ MapSeq(trace, LAMBDA e : <<e.path, e.id_filename>>) = expected
        /\ \A i \in 1..Len(trace) : trace[i].called

\* C3 (batch continuation): once generating has failed for some id file of
\* the batch (bad status, exception of the parser, failed write), the run
\* still reaches its end, with every directory entered and every id file
\* handed to the generator.
C3_BatchContinuation ==
    (\E i \in 1..Len(trace) : Failed(trace[i]))
        ~> (pc = "done" /\ BatchComplete)

\* the run ended after an exception in one directory and a generate call in
\* a later one
C3_Witness ==
    /\ pc = "done"
    /\ \E i \in 1..Len(trace) :
         /\ trace[i].exc # ""
         /\ \E j \in (i + 1)..Len(trace) :
              trace[j].path # trace[i].path /\ trace[j].called

\* C4 (dry-run purity of the writers): output_xml and output_str called
\* with dry_run=true return False, raise nothing and leave the disk as it
\* was, whatever overwrite is and whether or not the target exists.
C4_DryRunPurity ==
    (IsWriter /\ last.dry_run)
        => /\ last.ret = FALSE
           /\ last.exc = ""
           /\ last.wrote = <<>>
           /\ fs = last.before

\* a dry run with overwrite=true on a target that exists
C4_Witness ==
    /\ IsWriter /\ last.dry_run /\ last.overwrite
    /\ last.name \in Range(FileNames(last.before, last.path))
    /\ last.data # read(last.before, last.path, last.name)

\* C5 (overwrite protection): a writer call with dry_run=false, in a
\* directory that can be written to, returns False, raises nothing and
\* leaves the disk as it was when the target exists and overwrite=false;
\* in every other case it returns True and the target holds the content.
C5_OverwriteProtection ==
    (IsWriter /\ ~last.dry_run /\ ~last.readonly)
        => IF last.name \in Range(FileNames(last.before, last.path))
              /\ ~last.overwrite
           THEN last.ret = FALSE /\ last.exc = "" /\ fs = last.before
           ELSE /\ last.ret = TRUE /\ last.exc = ""
                /\ last.name \in Range(FileNames(fs, last.path))
                /\ read(fs, last.path, last.name) = last.data

\* the season and episode a known episode file stands for
PairOf(n) ==
    IF n = F_S01E02 THEN <<Season1, <<"2">>>>
    ELSE IF n = F_S01E01 THEN <<Season1, <<"1">>>>
    ELSE <<Season3, <<"1">>>>

EpisodeMedia == {F_S01E02, F_S01E01, F_S03E01}

\* the episode files below the directory of the call: <<directory, name>>
MediaFiles ==
    {dn \in {DirA, DirS1} \X EpisodeMedia :
        dn[2] \in Range(FileNames(last.before, dn[1]))}

\* the episodes the provider lists for season s of the title of the call
RemoteEpisodes(s) ==
    LET page == web.site[last.tid].season[s]
    IN  IF page.status # 200 THEN {}
        ELSE UNION {IF IsNone(The(page.json[b].episodes).items) THEN {}
                    ELSE {it.episode : it \in Range(The(The(page.json[b].episodes).items))} :
                       b \in {b \in 1..Len(page.json) : ~IsNone(page.json[b].episodes)}}
             \cup {The(t.episode) : t \in {t \in Range(page.divs) : ~IsNone(t.episode)}}

\* the call went through the episodes of a series without raising
EpisodesDone ==
    /\ last.op = "generate_imdb" /\ last.a.episodes /\ ~last.skipped
    /\ last.exc = ""
    /\ web.site[last.tid].status = 200
    /\ Len(web.site[last.tid].ld) = 1
    /\ web.site[last.tid].ld[1].type = Some("TVSeries")
    /\ web.site[last.tid].index_status = 200

\* C6 (reconciliation completeness): after the episodes of a series were
\* gone through, an episode file on disk was paired with remote data if and
\* only if the provider lists its episode in its season; nothing else was
\* paired; in single-episode mode a sidecar was emitted for exactly the
\* paired files, next to the file, and was written when nothing forbade it.
C6_Reconciliation ==
    EpisodesDone
        => /\ \A dn \in MediaFiles :
                  join(dn[1], dn[2]) \in Range(last.matched)
                      <=> PairOf(dn[2])[2] \in RemoteEpisodes(PairOf(dn[2])[1])
           /\ Range(last.matched) \subseteq {join(dn[1], dn[2]) : dn \in MediaFiles}
           /\ last.emitted = IF last.a.multi_episodes THEN <<>> ELSE last.matched
           /\ (~last.a.multi_episodes /\ ~last.a.dry_run /\ last.a.overwrite)
                  => \A dn \in MediaFiles :
                         join(dn[1], dn[2]) \in Range(last.matched)
                             => (splitext_root(dn[2]) \o NfoExt)
                                    \in Range(FileNames(fs, dn[1]))

\* a file was paired, another file on disk has no remote episode, and a
\* remote episode has no file
C6_Witness ==
    /\ EpisodesDone /\ ~last.a.multi_episodes
    /\ Len(last.emitted) > 0
    /\ \E dn \in MediaFiles : join(dn[1], dn[2]) \notin Range(last.matched)
    /\ \E s \in SeasonKeys : \E e \in RemoteEpisodes(s) :
           \A dn \in MediaFiles : PairOf(dn[2]) # <<s, e>>

IsExtract == last.op = "extract_season_episode"
IsScan == last.op = "determine_episodes"

\* a key of the disk map: decimal digits without a leading zero
Normalized(k) ==
    /\ Len(k) > 0
    /\ \A i \in 1..Len(k) : k[i] \in Digits
    /\ Len(k) > 1 => k[1] # "0"

\* the disk map holds episode e of season s
ScanHas(m, s, e) ==
    \E i \in 1..Len(m) : m[i][1] = s /\ e \in Range(m[i][2])

\* C7 as stated (normalization): Show.S01E02.mkv, Show.S1E2.mkv and
\* Show.S001E002.mkv are all mapped to the pair ("1", "2").
C7_Normalization ==
    (IsExtract /\ last.name \in {F_S01E02, F_S1E2, F_S001E002})
        => last.ret = Some(<<Season1, <<"2">>>>)

\* C7 amended: Show.S01E02.mkv and Show.S1E2.mkv are mapped to the pair
\* ("1", "2") and Show.S001E002.mkv to no pair, the captures taking one or
\* two digits; every key of the disk map is rendered without leading zeros;
\* the map holds ("1", "2") exactly when a pattern selects a file of that
\* episode, Show.S1E2.mkv being selected by *.mkv and not by *S??E??*.*.
C7_NormalizationTwoDigits ==
    /\ (IsExtract /\ last.name \in {F_S01E02, F_S1E2})
           => last.ret = Some(<<Season1, <<"2">>>>)
    /\ (IsExtract /\ last.name = F_S001E002) => last.ret = None
    /\ IsExtract /\ ~IsNone(last.ret)
           => Normalized(The(last.ret)[1]) /\ Normalized(The(last.ret)[2])
    /\ IsScan
           => /\ \A i \in 1..Len(last.ret) :
                    /\ Normalized(last.ret[i][1])
                    /\ \A e \in Range(last.ret[i][2]) : Normalized(e)
              /\ ScanHas(last.ret, Season1, <<"2">>)
                    <=> \/ F_S01E02 \in Range(FileNames(fs, DirA))
                        \/ /\ N_S01E02 \in Range(FileNames(fs, DirA))
                           /\ DefaultPattern \in Range(last.episode_pattern)
                        \/ /\ F_S1E2 \in Range(FileNames(fs, DirA))
                           /\ MkvPattern \in Range(last.episode_pattern)

\* both spellings were scanned: a disk with Show.S1E2.mkv and
\* Show.S001E002.mkv only, under the pattern *.mkv, gave the pair ("1", "2")
C7_Witness ==
    /\ IsScan
    /\ Range(FileNames(fs, DirA)) = {F_S1E2, F_S001E002}
    /\ MkvPattern \in Range(last.episode_pattern)
    /\ last.ret = <<<<Season1, <<<<"2">>>>>>>>

\* the poster of the title of the call, if the provider names one
TitleImage ==
    IF last.op = "generate_imdb" THEN web.site[last.tid].ld[1].image
    ELSE web.omdb[last.tid].j.Poster

TitleImageStatus ==
    IF last.op = "generate_imdb" THEN web.site[last.tid].image_status
    ELSE web.omdb[last.tid].image_status

\* the call got as far as the fanart of a title
FanartDone ==
    /\ IsGenerate /\ ~last.skipped
    /\ IF last.op = "generate_imdb"
       THEN web.site[last.tid].status = 200 /\ Len(web.site[last.tid].ld) = 1
       ELSE web.omdb[last.tid].status = 200

\* what the fanart option of the call resolves to on the disk before it
Resolved ==
    IF last.a.fanart = "download-missing"
    THEN IF FanartFile \in Range(FileNames(last.before, last.path))
         THEN "use-existing" ELSE "download"
    ELSE last.a.fanart

ImageFetched ==
    \E i \in 1..Len(last.fetches) :
        last.fetches[i] \in {image_url(last.tid), poster_url(last.tid)}

\* the title sidecar the call wrote, if it wrote one
WrittenTitle ==
    {n \in {MovieNfo(last.path), FILENAME_TVSHOW} :
        join(last.path, n) \in Range(last.wrote)}

HasThumb(data) ==
    \E i \in 1..Len(data) :
        /\ data[i][3] = "thumb" /\ data[i][4] = FanartFile
        /\ data[i][5] = <<<<"aspect", "poster">>>>

\* C8 (fanart resolution): a call that gets to the fanart requests the image
\* exactly when the option resolves to "download" and the provider names an
\* image; a title sidecar it writes holds the thumb element exactly when the
\* option resolves to "use-existing", or to "download" with the image
\* delivered; "download-missing" resolves by the presence of the fanart file
\* before the call; with "none" there is no image request and no thumb.
C8_FanartResolution ==
    FanartDone
        => /\ last.fanart_act = Resolved
           /\ ImageFetched <=> (Resolved = "download" /\ ~IsNone(TitleImage))
           /\ \A n \in WrittenTitle :
                  HasThumb(read(fs, last.path, n))
                      <=> \/ Resolved = "use-existing"
                          \/ /\ Resolved = "download" /\ ~IsNone(TitleImage)
                             /\ TitleImageStatus = 200
           /\ last.a.fanart = "none"
                  => ~ImageFetched /\ \A n \in WrittenTitle :
                                          ~HasThumb(read(fs, last.path, n))

\* "download-missing" met an existing fanart file: no image request although
\* the provider names an image, and the sidecar written holds the thumb
C8_Witness ==
    /\ FanartDone /\ last.a.fanart = "download-missing"
    /\ FanartFile \in Range(FileNames(last.before, last.path))
    /\ ~IsNone(TitleImage)
    /\ ~ImageFetched
    /\ \E n \in WrittenTitle : HasThumb(read(fs, last.path, n))

\* the call wrote multi-episode.nfo with the fragments of its matches
MultiWritten ==
    /\ last.op = "generate_imdb" /\ last.a.multi_episodes
    /\ Len(last.matched) > 0
    /\ join(last.path, FILENAME_MULTI) \in Range(last.wrote)

\* C9 (multi-episode concatenation): multi-episode.nfo written for one or
\* more matched episodes holds one prolog line, its first line, followed by
\* one episodedetails element per match, in order and with no line between
\* them.
C9_MultiEpisodeProlog ==
    MultiWritten
        => LET data == read(fs, last.path, FILENAME_MULTI)
               opens == {i \in 1..Len(data) :
                            data[i][1] = 0 /\ data[i][2] = "open"}
               closes == {i \in 1..Len(data) :
                             data[i][1] = 0 /\ data[i][2] = "close"}
           IN  /\ Len(data) > 0 /\ has_prolog(data[1])
               /\ \A i \in 2..Len(data) : ~has_prolog(data[i])
               /\ Cardinality(opens) = Len(last.matched)
               /\ \A i \in opens : data[i][3] = "episodedetails"
               /\ 2 \in opens /\ Len(data) \in closes
               /\ \A i \in closes : i < Len(data) => i + 1 \in opens

\* two or more fragments went into the file
C9_Witness == MultiWritten /\ Len(last.matched) >= 2

\* the kind of the title of the call is Series
IsSeries ==
    IF last.op = "generate_imdb"
    THEN web.site[last.tid].ld[1].type = Some("TVSeries")
    ELSE web.omdb[last.tid].j.Type = "series"

\* the root element of a sidecar: the line after the prolog
RootTag(data) == data[2][3]

\* C10 (kind determines root tag and path): a title sidecar written by
\* generate_imdb or generate_omdb for a title the provider describes is
\* tvshow.nfo with root tvshow when the title is a series, and
\* <basename>.nfo with root movie otherwise.
C10_KindRootPath ==
    (FanartDone /\ WrittenTitle # {})
        => \A n \in WrittenTitle :
               IF IsSeries
               THEN n = FILENAME_TVSHOW
                    /\ RootTag(read(fs, last.path, n)) = TAG_TVSHOW
               ELSE n = MovieNfo(last.path)
                    /\ RootTag(read(fs, last.path, n)) = TAG_MOVIE

\* the lines of the elements named tag at depth ind of a sidecar
Elements(data, ind, tag) ==
    SelectSeq(data, LAMBDA l : l[1] = ind /\ l[3] = tag /\ l[2] # "close")

\* their texts, in document order
Texts(data, ind, tag) == MapSeq(Elements(data, ind, tag), LAMBDA l : l[4])

\* the page and the structured data of the title of the call
TitleSite == web.site[last.tid]
TitleData == TitleSite.ld[1]

\* generate_imdb wrote the sidecar of a title with one block of structured data
TitleWritten ==
    /\ last.op = "generate_imdb" /\ ~last.skipped
    /\ TitleSite.status = 200 /\ Len(TitleSite.ld) = 1
    /\ WrittenTitle # {}

TitleTags ==
    {"title", "originaltitle", "uniqueid", "plot", "outline", "mpaa",
     "premiered", "director", "genre", "actor", "trailer", "ratings", "thumb"}

C12_InteractiveStop ==
    \A i \in 1..Len(trace) :
        trace[i].stopped
            => /\ i = Len(trace)
               /\ visited[Len(visited)] = trace[i].path

\* C13 (interactive flag): in a run set up with the interactive option the
\* loop prompts at every id file and never sleeps; in a run set up without
\* it no prompt is shown.
C13_InteractiveFlag ==
    \A i \in 1..Len(trace) :
        IF ns.interactive
        THEN trace[i].prompts > 0 /\ trace[i].slept = 0
        ELSE trace[i].prompts = 0

\* C14 (delay rule): in a run without the interactive option the loop
\* sleeps for the configured delay after an id file exactly when the
\* generator reported a generated file and the delay is positive; after an
\* id file whose directory was skipped for its sidecar, whose generation
\* raised, or that ran in dry-run it does not sleep.
C14_DelayRule ==
    \A i \in 1..Len(trace) :
        ~ns.interactive
            => /\ trace[i].slept
                      = (IF trace[i].ret /\ ns.delay > 0 THEN ns.delay ELSE 0)
               /\ (trace[i].skipped \/ trace[i].exc # "" \/ trace[i].dry_run)
                      => trace[i].slept = 0
               /\ trace[i].ret
                      => ~IsNone(sidecar(fs, trace[i].path))

\* with a delay of 1 the run slept after one id file and not after another,
\* whose directory was skipped or whose title was gone
C14_Witness ==
    /\ ~ns.interactive /\ ns.delay = 1
    /\ \E i, k \in 1..Len(trace) :
         /\ trace[i].slept = 1 /\ trace[i].ret
         /\ trace[k].slept = 0 /\ (trace[k].skipped \/ BadStatus(trace[k]))

\* the status the title request of the call was answered with
TitleStatus ==
    IF last.op = "generate_imdb" THEN web.site[last.tid].status
    ELSE web.omdb[last.tid].status

\* C15 (title fetch failure): a call of generate_imdb or generate_omdb whose
\* title request is answered with a status other than 200 returns False,
\* raises nothing, requests nothing else and leaves the disk as it was: no
\* sidecar is written, nor any other file.
C15_TitleFetchFailure ==
    (IsGenerate /\ ~last.skipped /\ TitleStatus # 200)
        => /\ last.ret = FALSE
           /\ last.exc = ""
           /\ Len(last.fetches) = 1
           /\ last.wrote = <<>>
           /\ fs = last.before

\* the title was requested and answered 404 in a directory that could have
\* been written to
C15_Witness ==
    /\ IsGenerate /\ ~last.skipped /\ TitleStatus = 404
    /\ Len(last.fetches) = 1
    /\ last.path \notin ro /\ ~last.a.dry_run
    /\ last.ret = FALSE /\ IsNone(sidecar(fs, last.path))

\* the seasons that have an episode file below the directory of the call
DiskSeasons == {PairOf(dn[2])[1] : dn \in MediaFiles}

SeasonPage(s) == web.site[last.tid].season[s]

\* the seasons on disk whose listing is answered with a status other than 200
FailedSeasons == {s \in DiskSeasons : SeasonPage(s).status # 200}

SeasonFetched(s) ==
    \E i \in 1..Len(last.fetches) :
        last.fetches[i] = create_episodes_url(last.tid, Some(s))

\* generate_imdb went through the episodes of a series of which the listing
\* of one season or more failed, with nothing else in the way: every other
\* listing on disk can be parsed and the directory can be written to
SeasonFailure ==
    /\ last.op = "generate_imdb" /\ last.a.episodes /\ ~last.skipped
    /\ web.site[last.tid].status = 200
    /\ Len(web.site[last.tid].ld) = 1
    /\ web.site[last.tid].ld[1].type = Some("TVSeries")
    /\ web.site[last.tid].index_status = 200
    /\ FailedSeasons # {}
    /\ \A s \in DiskSeasons : SeasonPage(s) # PageNoKey
    /\ last.path \notin ro

\* C16 (partial per-season failure): when the listing of a season on disk is
\* answered with a status other than 200, generate_imdb raises nothing, has
\* requested the listing of every season on disk, pairs no file of the
\* failed season, pairs the files of the other seasons with the episodes
\* the provider lists, and, unless in dry-run, writes tvshow.nfo and returns
\* True.
C16_SeasonFailureTolerated ==
    SeasonFailure
        => /\ last.exc = ""
           /\ \A s \in DiskSeasons : SeasonFetched(s)
           /\ \A dn \in MediaFiles :
                  join(dn[1], dn[2]) \in Range(last.matched)
                      <=> /\ PairOf(dn[2])[1] \notin FailedSeasons
                          /\ PairOf(dn[2])[2] \in RemoteEpisodes(PairOf(dn[2])[1])
           /\ (~last.a.multi_episodes /\ ~last.a.dry_run)
                  => \A dn \in MediaFiles :
                         join(dn[1], dn[2]) \in Range(last.matched)
                             => (splitext_root(dn[2]) \o NfoExt)
                                    \in Range(FileNames(fs, dn[1]))
           /\ ~last.a.dry_run
                  => /\ join(last.path, FILENAME_TVSHOW) \in Range(last.wrote)
                     /\ RootTag(read(fs, last.path, FILENAME_TVSHOW)) = TAG_TVSHOW
                     /\ last.ret = TRUE

\* season 1 failed, and the episode file of season 3, requested after it, got
\* its sidecar next to tvshow.nfo
C16_Witness ==
    /\ SeasonFailure /\ ~last.a.dry_run /\ ~last.a.multi_episodes
    /\ FailedSeasons = {Season1} /\ Season3 \in DiskSeasons
    /\ last.matched = <<join(DirS1, F_S03E01)>>
    /\ (splitext_root(F_S03E01) \o NfoExt) \in Range(FileNames(fs, DirS1))
    /\ join(last.path, FILENAME_TVSHOW) \in Range(last.wrote)

\* the call requested the image of the title and got a status other than 200
ImageFailed ==
    /\ FanartDone /\ Resolved = "download"
    /\ ~IsNone(TitleImage) /\ TitleImageStatus # 200
    /\ last.op = "generate_omdb" => ~IsNone(web.omdb[last.tid].j.Director)

\* C17 (fanart fetch failure): a call whose image request is answered with a
\* status other than 200 raises nothing, creates no fanart file, and where
\* nothing forbids writing it writes the title sidecar, without a thumb
\* element.
C17_FanartFailureTolerated ==
    ImageFailed
        => /\ last.exc = ""
           /\ (FanartFile \in Range(FileNames(fs, last.path)))
                  = (FanartFile \in Range(FileNames(last.before, last.path)))
           /\ (~last.a.dry_run /\ last.path \notin ro)
                  => /\ WrittenTitle # {}
                     /\ \A n \in WrittenTitle : ~HasThumb(read(fs, last.path, n))

\* the seasons the episodes page of the title of the call names
RemoteSeasons == Range(extract_seasons(web.site[last.tid].index))

\* the seasons a listing request may name
AnySeasons == SeasonKeys \cup RemoteSeasons

\* C18 as stated (season fetches): a season listing is requested only for a
\* season that has an episode file on disk and that the episodes page of the
\* title names.
C18_SeasonIntersection ==
    (last.op = "generate_imdb" /\ ~IsNone(last.seasons))
        => \A s \in AnySeasons :
               SeasonFetched(s) => s \in DiskSeasons /\ s \in RemoteSeasons

\* C18 (season fetches follow the disk): once the episodes page of a series
\* was fetched, a season listing is requested only for a season that has an
\* episode file on disk, whether or not the episodes page names it, and
\* never for a season that page names but the disk lacks; a call that does
\* not raise has requested the listing of every season on disk.
C18_SeasonsOnDisk ==
    (last.op = "generate_imdb" /\ ~IsNone(last.seasons))
        => /\ The(last.seasons) = extract_seasons(web.site[last.tid].index)
           /\ \A s \in AnySeasons :
                  /\ SeasonFetched(s) => s \in DiskSeasons
                  /\ (last.exc = "" /\ s \in DiskSeasons) => SeasonFetched(s)

\* season 3 is on disk and not on the episodes page, season 2 the other way
\* round: the listing of season 3 was requested, that of season 2 was not
C18_Witness ==
    /\ last.op = "generate_imdb" /\ ~IsNone(last.seasons)
    /\ Season3 \in DiskSeasons \ RemoteSeasons
    /\ SeasonFetched(Season3)
    /\ \E s \in RemoteSeasons \ DiskSeasons : ~SeasonFetched(s)

\* the episodes the application/json scripts of the page list
JsonEpisodes ==
    UNION {IF IsNone(Soup.json[b].episodes)
              \/ IsNone(The(Soup.json[b].episodes).items) THEN {}
           ELSE {it.episode : it \in Range(The(The(Soup.json[b].episodes).items))} :
              b \in 1..Len(Soup.json)}

\* the episodes the divs and the articles of the page name
DivEpisodes == {The(t.episode) : t \in {t \in Range(Soup.divs) : ~IsNone(t.episode)}}
ArticleEpisodes ==
    {The(t.episode) : t \in {t \in Range(Soup.articles) : ~IsNone(t.episode)}}

\* C19 (JSON first, HTML fallback): for a season page that is parsed without
\* an exception, the HTML of the page is parsed exactly when its embedded
\* JSON yields no episode, a page without any application/json script
\* included; when the JSON yields an episode the episodes of the season are
\* those of the JSON.
C19_JsonFirstHtmlFallback ==
    (last.op = "season_episodes" /\ last.exc = "")
        => /\ last.use_fallback <=> JsonEpisodes = {}
           /\ JsonEpisodes # {}
                  => {last.data[i][1] : i \in 1..Len(last.data)} = JsonEpisodes

\* C20 (HTML strategy chain): extract_episodes_html returns the episodes of
\* the divs of itemprop episodes when they name one, else the episodes of
\* the articles; its result is empty only when neither layout names an
\* episode.
C20_HtmlStrategyChain ==
    last.op = "extract_episodes_html"
        => {last.ret[i][1] : i \in 1..Len(last.ret)}
               = (IF DivEpisodes # {} THEN DivEpisodes ELSE ArticleEpisodes)

\* generate_imdb went through the episodes of a series and met, for a season
\* on disk, a page with an application/json script without "episodes"
ParseFailure ==
    /\ last.op = "generate_imdb" /\ last.a.episodes /\ ~last.skipped
    /\ web.site[last.tid].status = 200
    /\ Len(web.site[last.tid].ld) = 1
    /\ web.site[last.tid].ld[1].type = Some("TVSeries")
    /\ web.site[last.tid].index_status = 200
    /\ \E s \in DiskSeasons :
           /\ SeasonPage(s).status = 200
           /\ \E b \in 1..Len(SeasonPage(s).json) :
                  IsNone(SeasonPage(s).json[b].episodes)

\* C21 (parse failures): a season page whose embedded JSON has no "episodes"
\* key raises nothing out of generate_imdb, and where nothing forbids
\* writing the title sidecar of the directory is written.
C21_ParseFailuresTolerated ==
    ParseFailure
        => /\ last.exc = ""
           /\ (~last.a.dry_run /\ last.path \notin ro)
                  => join(last.path, FILENAME_TVSHOW) \in Range(last.wrote)

\* what the page of season s holds about episode e: the item of the embedded
\* JSON if there is one, else the div of the HTML
SourceOf(s, e) ==
    LET page == SeasonPage(s)
        items == {it \in UNION {Range(The(The(page.json[b].episodes).items)) :
                                  b \in {b \in 1..Len(page.json) :
                                            /\ ~IsNone(page.json[b].episodes)
                                            /\ ~IsNone(The(page.json[b].episodes).items)}} :
                     it.episode = e}
    IN  IF items # {}
        THEN LET it == CHOOSE it \in items : TRUE
             IN  [plot |-> it.plot, date |-> it.releaseDate,
                  rating |-> it.aggregateRating]
        ELSE LET t == CHOOSE t \in Range(page.divs) : t.episode = Some(e)
             IN  [plot |-> t.plot, date |-> t.aired, rating |-> t.rating]

\* the episode sidecars the call wrote: <<directory, media file, sidecar>>
WrittenEpisodes ==
    {<<dn[1], dn[2], splitext_root(dn[2]) \o NfoExt>> : dn \in
        {dn \in MediaFiles :
            /\ join(dn[1], dn[2]) \in Range(last.emitted)
            /\ join(dn[1], splitext_root(dn[2]) \o NfoExt) \in Range(last.wrote)}}

\* the one air date the pages at hand hold, as YYYY-MM-DD
AiredText == <<"2","0","2","0","-","0","1","-","0","2">>

\* C22 (optional episode fields): an episode sidecar generate_imdb writes
\* holds season, episode and title; it holds plot, aired (as YYYY-MM-DD) and
\* ratings exactly when the page has the plot, the air date and the rating
\* of the episode; it holds no element without text and no text "None".
C22_OptionalEpisodeFields ==
    EpisodesDone
        => \A w \in WrittenEpisodes :
               LET data == read(fs, w[1], w[3])
                   src == SourceOf(PairOf(w[2])[1], PairOf(w[2])[2])
               IN  /\ Texts(data, 1, "season") = <<PairOf(w[2])[1]>>
                   /\ Texts(data, 1, "episode") = <<PairOf(w[2])[2]>>
                   /\ Len(Texts(data, 1, "title")) = 1
                   /\ Texts(data, 1, "plot") = src.plot
                   /\ Texts(data, 1, "aired")
                          = (IF IsNone(src.date) THEN <<>> ELSE <<AiredText>>)
                   /\ Len(Elements(data, 1, "ratings"))
                          = (IF IsNone(src.rating) THEN 0 ELSE 1)
                   /\ \A i \in 1..Len(data) :
                          /\ data[i][2] # "empty"
                          /\ data[i][4] # <<"N","o","n","e">>

\* the title of the call is a series by the structured data, or, the
\* structured data naming no type, by the link to the episodes
SeriesBySignals ==
    IF ~IsNone(TitleData.type) THEN The(TitleData.type) = "TVSeries"
    ELSE has_episodes_soup(TitleSite)

\* C23 (series detection): generate_imdb treats a title as a series when the
\* structured data carries the type TVSeries, and also when the structured
\* data names no type and the page holds the link to its episodes: the
\* sidecar it writes is then tvshow.nfo with root tvshow, else
\* <basename>.nfo with root movie.
C23_SeriesDetection ==
    TitleWritten
        => \A n \in WrittenTitle :
               IF SeriesBySignals
               THEN n = FILENAME_TVSHOW
                    /\ RootTag(read(fs, last.path, n)) = TAG_TVSHOW
               ELSE n = MovieNfo(last.path)
                    /\ RootTag(read(fs, last.path, n)) = TAG_MOVIE

\* the number a decimal string stands for, written without leading zeros
WithoutLeadingZeros(x) == py_str(py_int(x))

\* C24 (numbering convention): the episodes taken from a season page are
\* keyed by season and episode number without leading zeros: an episode
\* file on disk is paired whenever the provider lists, in its season, an
\* episode whose number without leading zeros is the one of the file.
C24_NumberingConvention ==
    EpisodesDone
        => \A dn \in MediaFiles :
               (\E e \in RemoteEpisodes(PairOf(dn[2])[1]) :
                    WithoutLeadingZeros(e) = PairOf(dn[2])[2])
                   => join(dn[1], dn[2]) \in Range(last.matched)

\* C25 (guess flow exit): when the user chooses "X" at the prompt of a
\* guess, the guess writes no id file and returns False, and the iteration
\* over the directories stops: no directory is gone through after it.
C25_GuessExit ==
    \A i \in 1..Len(trace) :
        (trace[i].called /\ trace[i].choice = ChoiceExit)
            => /\ trace[i].ret = Some(FALSE)
               /\ (IF i < Len(trace) THEN trace[i + 1].before ELSE fs)
                      = trace[i].before
               /\ i = Len(trace)

\* the title page of the call was answered, without structured data
NoStructuredData ==
    /\ last.op = "generate_imdb" /\ ~last.skipped
    /\ TitleSite.status = 200 /\ Len(TitleSite.ld) = 0

\* C26 (no empty title sidecar): every title sidecar generate_imdb writes
\* has a root element movie or tvshow holding a uniqueid of type imdb; for
\* a page without a block of structured data no title sidecar is written
\* and the call returns False.
C26_NoEmptyTitleSidecar ==
    last.op = "generate_imdb"
        => /\ \A n \in WrittenTitle :
                  LET data == read(fs, last.path, n)
                  IN  /\ Len(data) >= 2
                      /\ RootTag(data) \in {TAG_MOVIE, TAG_TVSHOW}
                      /\ \E l \in Range(Elements(data, 1, "uniqueid")) :
                             <<"type", "imdb">> \in Range(l[5])
           /\ NoStructuredData => WrittenTitle = {} /\ last.ret = FALSE

\* C27 (dry-run at generate level): a generate_imdb / generate_omdb call
\* with dry_run=true creates and modifies no file, the fanart image
\* included, whatever the fanart action, and returns False.
C27_DryRunGenerate ==
    (IsGenerate /\ last.a.dry_run /\ last.exc = "")
        => /\ fs = last.before
           /\ last.wrote = <<>>
           /\ last.ret = FALSE

\* C28 (multi-episode.nfo only with content): generate_imdb writes
\* multi-episode.nfo only when the multi-episode mode is asked for and one
\* or more episode files were matched; for a movie, a series without the
\* episodes option, or no match, the file is not created and does not by
\* itself make the call return True.
C28_MultiOnlyWithContent ==
    (last.op = "generate_imdb" /\ last.exc = "")
        => /\ join(last.path, FILENAME_MULTI) \in Range(last.wrote)
                  => last.a.multi_episodes /\ Len(last.matched) > 0
           /\ (last.ret /\ Len(last.matched) = 0) => WrittenTitle # {}

\* the sidecar an episode file gets
EpisodeNfo(n) == splitext_root(n) \o NfoExt

\* C29 (skip check is per directory): a generate_imdb call with
\* episodes=true and overwrite=false on a directory that holds tvshow.nfo
\* or <basename>.nfo pairs no episode file and writes no episode sidecar:
\* the episode files below the directory have the sidecars they had.
C29_SkipPerDirectory ==
    (last.op = "generate_imdb" /\ last.a.episodes /\ ~last.a.overwrite
        /\ HadTitleSidecar)
        => /\ last.matched = <<>> /\ last.emitted = <<>>
           /\ \A dn \in MediaFiles :
                  /\ join(dn[1], EpisodeNfo(dn[2])) \notin Range(last.wrote)
                  /\ exists(fs, dn[1], EpisodeNfo(dn[2]))
                         <=> exists(last.before, dn[1], EpisodeNfo(dn[2]))

\* the directory holds tvshow.nfo and an episode file without a sidecar
\* whose episode the provider lists: the call left it without one
C29_Witness ==
    /\ last.op = "generate_imdb" /\ last.a.episodes /\ ~last.a.overwrite
    /\ ~last.a.dry_run /\ ~last.a.multi_episodes
    /\ FILENAME_TVSHOW \in Range(FileNames(last.before, last.path))
    /\ <<last.path, F_S01E02>> \in MediaFiles
    /\ DirA \notin ro
    /\ TitleSite.status = 200 /\ TitleSite.index_status = 200
    /\ Len(TitleSite.ld) = 1 /\ TitleData.type = Some("TVSeries")
    /\ <<"2">> \in RemoteEpisodes(Season1)
    /\ ~exists(fs, last.path, EpisodeNfo(F_S01E02))

\* the call was given the title as a URL
UrlCall ==
    /\ last.op = "generate_imdb" /\ ~last.skipped
    /\ startswith(last.tid, <<"h","t","t","p">>)

\* the id a title URL names
BareId(url) == CHOOSE t \in Tids : title_url(t) = url

\* C30 (identifier as full URL): given the title as the URL of its page,
\* generate_imdb requests that URL as it is, and the requests for the
\* episodes overview and the season listings go to
\* https://www.imdb.com/title/<bare id>/episodes/, with the season query
\* for a listing; for a series whose episodes are asked for the overview
\* is requested.
C30_UrlIdentifier ==
    UrlCall
        => LET site == web.site[BareId(last.tid)]
               overview == create_episodes_url(BareId(last.tid), None)
               listings == {create_episodes_url(BareId(last.tid), Some(k)) :
                               k \in SeasonKeys}
           IN  /\ Len(last.fetches) >= 1 /\ last.fetches[1] = last.tid
               /\ \A i \in 2..Len(last.fetches) :
                      last.fetches[i] \in {overview} \cup listings
                                           \cup {image_url(BareId(last.tid))}
               /\ (/\ site.status = 200 /\ Len(site.ld) = 1
                   /\ site.ld[1].type = Some("TVSeries")
                   /\ last.a.episodes /\ last.exc = "")
                      => overview \in Range(last.fetches)

====
